---- MODULE Spec2Model ----
(***************************************************************************)
(* vgQRGen: the spreadsheet manager (ExcelManager) that resolves the       *)
(* column roles of a sheet and extracts WiFi credentials from its rows.    *)
(*                                                                         *)
(* Python values are modelled as follows.                                  *)
(*   - a str is S(chars): a record holding the sequence of its characters, *)
(*     each character a one-character string;                              *)
(*   - None, as an object value, is the record None;                       *)
(*   - an Optional[int] column index is the index, or NoIndex for None;    *)
(*   - a worksheet is the sequence of its rows (row 1 first), every row    *)
(*     the tuple of its cell values, as iter_rows(values_only=True) gives. *)
(*                                                                         *)
(* A cell value is None or a str (numeric cells are not drawn); case       *)
(* folding covers A-Z; the whitespace strip() removes is the blank.        *)
(*                                                                         *)
(* Specifications: SpecDetect applies set_active_sheet to a sheet whose    *)
(* header row is drawn freely (column detection); Spec is the manager      *)
(* over a loaded workbook with every operation; SpecQRManager applies      *)
(* generate_wifi_qr, add_logo and add_text to drawn arguments, SpecSaveQR  *)
(* applies save_qr; SpecColumns applies the column letter conversions;     *)
(* SpecGenerate is the window's manual, single-room and bulk generation    *)
(* over a loaded workbook and an output directory, SpecSheetGenerate the   *)
(* same without the manual tab, SpecPipeline the manual tab on every       *)
(* machine, SpecTags the single-room generation over every property tag;   *)
(* SpecLogging is the start of the program up to its exit; SpecConfig      *)
(* applies add_recent_file and get_last_sheet; SpecWindow is the Excel     *)
(* tab: loading a file, picking and loading a sheet, the manual columns    *)
(* dialog and the security radio, with the sheet configurations stored.    *)
(***************************************************************************)
EXTENDS Integers, Sequences, FiniteSets, TLC

VARIABLES
    workbook,           \* ExcelManager.workbook: None, or sheet name -> worksheet
    sheet,              \* ExcelManager.sheet: None, or the selected Worksheet
    columns,            \* ExcelManager.columns: None, or an ExcelColumns record
    columns_detected,   \* ExcelManager.columns_detected
    ret,                \* the last call made on the manager and what it returned
    options,            \* MainWindow: the security and property switches and radios
    pc,                 \* MainWindow: "idle", or "bulk" inside the loop of _generate_all_qr
    all_rooms,          \* _generate_all_qr: the list get_all_rooms returned (<< >> outside it)
    loop_idx,           \* _generate_all_qr: idx, the records the loop has gone through
    count,              \* _generate_all_qr: the records generated
    cancel_flag,        \* _generate_all_qr: cancel_flag['cancel']
    output_dir,         \* QRManager.output_dir: file name -> the image saved
    calls,              \* the QRManager calls of the handler's last _generate_and_show_qr
    results,            \* what _generate_and_show_qr returned, per record of the run
    messages,           \* the message boxes of the last handler
    env,                \* the machine: logo assets, fonts, whether drawing and showing work
    log_manager,        \* LogManager._initialized, the levels of the loggers and handlers
    main_pc,            \* __main__: "import", "main", "running" or "exited"
    config,             \* ConfigManager.config: the recent files and the sheet configurations
    window              \* MainWindow: the Excel tab's file, sheet combobox and buttons

excel_vars == <<workbook, sheet, columns, columns_detected, ret>>

\* what the managers and handlers read but never change
other_vars == <<env, log_manager, main_pc, config, window>>

gui_vars == <<options, pc, all_rooms, loop_idx, count, cancel_flag, output_dir,
              calls, results, messages>>

vars == <<workbook, sheet, columns, columns_detected, ret, options, pc,
          all_rooms, loop_idx, count, cancel_flag, output_dir, calls, results,
          messages,
          env, log_manager, main_pc, config, window>>

---------------------------------------------------------------------------
(* Python values *)

None == [t |-> "None"]
S(chars) == [t |-> "str", v |-> chars]
IsStr(x) == x.t = "str"

\* Optional[int] = None of ExcelColumns: the absent column index.
NoIndex == -1

UpperChars == <<"A","B","C","D","E","F","G","H","I","J","K","L","M",
                "N","O","P","Q","R","S","T","U","V","W","X","Y","Z">>
LowerChars == <<"a","b","c","d","e","f","g","h","i","j","k","l","m",
                "n","o","p","q","r","s","t","u","v","w","x","y","z">>
Whitespace == {" "}

LowerChar(c) ==
    IF \E i \in 1..26 : UpperChars[i] = c
    THEN LowerChars[CHOOSE i \in 1..26 : UpperChars[i] = c]
    ELSE c

UpperChar(c) ==
    IF \E i \in 1..26 : LowerChars[i] = c
    THEN UpperChars[CHOOSE i \in 1..26 : LowerChars[i] = c]
    ELSE c

\* str.lower() and str.upper(), on character sequences
lower(s) == [i \in 1..Len(s) |-> LowerChar(s[i])]
upper(s) == [i \in 1..Len(s) |-> UpperChar(s[i])]

\* str.strip(): drop the leading and the trailing whitespace
strip(s) ==
    IF \A i \in 1..Len(s) : s[i] \in Whitespace
    THEN <<>>
    ELSE LET first == CHOOSE i \in 1..Len(s) :
                          /\ s[i] \notin Whitespace
                          /\ \A j \in 1..(i-1) : s[j] \in Whitespace
             last  == CHOOSE i \in 1..Len(s) :
                          /\ s[i] \notin Whitespace
                          /\ \A j \in (i+1)..Len(s) : s[j] \in Whitespace
         IN  SubSeq(s, first, last)

\* keyword in cell_value: substring containment
contains(s, k) ==
    \E i \in 0..(Len(s) - Len(k)) : SubSeq(s, i + 1, i + Len(k)) = k

\* str(x): a str is itself, None prints as "None"
str(x) == IF IsStr(x) THEN x.v ELSE <<"N","o","n","e">>

\* Python truth of a cell value: None and "" are false
truthy(x) == IsStr(x) /\ x.v # <<>>

---------------------------------------------------------------------------
(* ExcelManager.COLUMN_KEYWORDS, in the dictionary's order *)

ColTypes == <<"room", "ssid", "password", "encryption", "property">>

COLUMN_KEYWORDS ==
    [ room |-> <<
          <<"r","o","o","m">>,  \* room
          <<"h","a","b","i","t","a","c","i","o","n">>,  \* habitacion
          <<"h","a","b","i","t","a","c","i","ó","n">>,  \* habitación
          <<"n","u","m","b","e","r">>,  \* number
          <<"n","ú","m","e","r","o">>,  \* número
          <<"h","a","b">>,  \* hab
          <<"c","u","a","r","t","o">>,  \* cuarto
          <<"v","i","l","l","a">>   \* villa
      >>
    , ssid |-> <<
          <<"s","s","i","d">>,  \* ssid
          <<"n","e","t","w","o","r","k">>,  \* network
          <<"r","e","d">>,  \* red
          <<"w","i","f","i">>,  \* wifi
          <<"n","o","m","b","r","e">>,  \* nombre
          <<"n","a","m","e">>,  \* name
          <<"n","e","t">>   \* net
      >>
    , password |-> <<
          <<"p","a","s","s","w","o","r","d">>,  \* password
          <<"c","o","n","t","r","a","s","e","ñ","a">>,  \* contraseña
          <<"p","a","s","s">>,  \* pass
          <<"k","e","y">>,  \* key
          <<"c","l","a","v","e">>,  \* clave
          <<"p","w","d">>,  \* pwd
          <<"c","o","n","t","r","a","s","e","n","a">>   \* contrasena
      >>
    , encryption |-> <<
          <<"s","e","c","u","r","i","t","y">>,  \* security
          <<"e","n","c","r","y","p","t","i","o","n">>,  \* encryption
          <<"s","e","g","u","r","i","d","a","d">>,  \* seguridad
          <<"e","n","c","r","i","p","t","a","c","i","ó","n">>,  \* encriptación
          <<"t","y","p","e">>,  \* type
          <<"t","i","p","o">>,  \* tipo
          <<"e","n","c","r","i","p","t","a","c","i","o","n">>   \* encriptacion
      >>
    , property |-> <<
          <<"p","r","o","p","e","r","t","y">>,  \* property
          <<"p","r","o","p","i","e","d","a","d">>,  \* propiedad
          <<"h","o","t","e","l">>,  \* hotel
          <<"r","e","g","i","o","n">>,  \* region
          <<"z","o","n","a">>,  \* zona
          <<"l","u","g","a","r">>,  \* lugar
          <<"s","i","t","e">>   \* site
      >>
    ]

in_keywords(cell_value, col_type) ==
    \E i \in 1..Len(COLUMN_KEYWORDS[col_type]) :
        COLUMN_KEYWORDS[col_type][i] = cell_value

any_keyword_in(cell_value, col_type) ==
    \E i \in 1..Len(COLUMN_KEYWORDS[col_type]) :
        contains(cell_value, COLUMN_KEYWORDS[col_type][i])

---------------------------------------------------------------------------
(* Cell texts used as inputs *)

txt_Room == S(<<"R","o","o","m">>)
txt_SSID == S(<<"S","S","I","D">>)
txt_Number == S(<<"N","u","m","b","e","r">>)
txt_NetworkName == S(<<"N","e","t","w","o","r","k"," ","N","a","m","e">>)
txt_HotelName == S(<<"H","o","t","e","l"," ","N","a","m","e">>)
txt_WifiPassword == S(<<"W","i","f","i"," ","P","a","s","s","w","o","r","d">>)
txt_Password == S(<<" ","P","a","s","s","w","o","r","d"," ">>)
txt_Notes == S(<<"N","o","t","e","s">>)
txt_Security == S(<<"S","e","c","u","r","i","t","y">>)
txt_Property == S(<<"P","r","o","p","e","r","t","y">>)
txt_blank == S(<<" "," ">>)
txt_empty == S(<<>>)
txt_101 == S(<<"1","0","1">>)
txt_101sp == S(<<" ","1","0","1"," ">>)
txt_a1 == S(<<"a","1">>)
txt_A1sp == S(<<" ","A","1">>)
txt_NetA == S(<<"N","e","t","A">>)
txt_NetB == S(<<" ","N","e","t","B"," ">>)
txt_pw == S(<<"p","w","1">>)
txt_WPA == S(<<" ","W","P","A"," ">>)
txt_VLE == S(<<"V","L","E">>)
txt_none == S(<<"n","o","n","e">>)

\* security and property values of the window and of QRManager
txt_WPA2 == S(<<"W","P","A","2">>)
txt_WEP == S(<<"W","E","P">>)
txt_nopass == S(<<"n","o","p","a","s","s">>)
txt_OPEN == S(<<"O","P","E","N">>)
txt_wpa == S(<<"w","p","a">>)
txt_Guest == S(<<"G","u","e","s","t">>)
txt_XYZ == S(<<"X","Y","Z">>)
txt_VLEV == S(<<"V","L","E","V">>)
txt_VDPF == S(<<"V","D","P","F">>)
txt_VG == S(<<"V","G">>)
txt_VDP == S(<<"V","D","P">>)
txt_FLAMINGOS == S(<<"F","L","A","M","I","N","G","O","S">>)
txt_SinLogo == S(<<"S","i","n"," ","L","o","g","o">>)
txt_vle_sp == S(<<" ","v","l","e"," ">>)
txt_Flamingos == S(<<"F","l","a","m","i","n","g","o","s">>)

---------------------------------------------------------------------------
(* Bounds *)

\* the longest header row drawn for column detection
MaxCols == 3

---------------------------------------------------------------------------
(* ExcelColumns and ExcelManager._detect_columns *)

ExcelColumns(room, ssid, password, encryption, property_type) ==
    [ room |-> room, ssid |-> ssid, password |-> password,
      encryption |-> encryption, property_type |-> property_type ]

ColTypeSet == {ColTypes[i] : i \in 1..Len(ColTypes)}

\* column_indices as _detect_columns creates it: every role None
empty_indices == [ct \in ColTypeSet |-> NoIndex]

\* The place in ColTypes of the first col_type, in the dictionary's order, that
\* is among hits (where the loop over COLUMN_KEYWORDS.items() breaks); 0 if none.
first_col_type(hits) ==
    IF \E i \in 1..Len(ColTypes) : ColTypes[i] \in hits
    THEN CHOOSE i \in 1..Len(ColTypes) :
             /\ ColTypes[i] \in hits
             /\ \A j \in 1..(i-1) : ColTypes[j] \notin hits
    ELSE 0

\* Faulty variant: exact_match that leaves a role alone once a cell has it
exact_match_keeps_first(column_indices, idx, cell_value) ==
    LET i == first_col_type({ct \in ColTypeSet : in_keywords(cell_value, ct)})
    IN  IF i = 0 \/ column_indices[ColTypes[IF i = 0 THEN 1 ELSE i]] # NoIndex
        THEN column_indices
        ELSE [column_indices EXCEPT ![ColTypes[i]] = idx]

\* for col_type, keywords in ...: if cell_value in keywords: assign; break
exact_match(column_indices, idx, cell_value) ==
    LET i == first_col_type({ct \in ColTypeSet : in_keywords(cell_value, ct)})
    IN  IF i = 0 THEN column_indices
        ELSE [column_indices EXCEPT ![ColTypes[i]] = idx]

\* Faulty variant: partial_match without the `is not None: continue` guard: a later cell that
\* contains a keyword takes the role over
partial_match_overwrites(column_indices, idx, cell_value) ==
    LET i == first_col_type({ct \in ColTypeSet : any_keyword_in(cell_value, ct)})
    IN  IF i = 0 THEN column_indices
        ELSE [column_indices EXCEPT ![ColTypes[i]] = idx]

\* if all assigned: continue; else the first unassigned col_type one of whose
\* keywords is contained in cell_value is assigned; break
partial_match(column_indices, idx, cell_value) ==
    IF \A i \in 1..Len(ColTypes) : column_indices[ColTypes[i]] # NoIndex
    THEN column_indices
    ELSE LET i == first_col_type({ct \in ColTypeSet :
                                      /\ column_indices[ct] = NoIndex
                                      /\ any_keyword_in(cell_value, ct)})
         IN  IF i = 0 THEN column_indices
             ELSE [column_indices EXCEPT ![ColTypes[i]] = idx]

\* the body of `for idx, cell in enumerate(header_row)`
scan_cell(column_indices, idx, cell) ==
    IF ~truthy(cell)
    THEN column_indices
    ELSE LET cell_value == strip(lower(str(cell)))
         IN  partial_match(exact_match(column_indices, idx, cell_value),
                           idx, cell_value)

RECURSIVE scan_header(_, _, _)
scan_header(header_row, idx, column_indices) ==
    IF idx >= Len(header_row)
    THEN column_indices
    ELSE scan_header(header_row, idx + 1,
                     scan_cell(column_indices, idx, header_row[idx + 1]))

\* Faulty variant: _detect_columns without the check of the required columns
detect_columns_unchecked(ws) ==
    IF ws = None
    THEN None
    ELSE LET column_indices == scan_header(ws[1], 0, empty_indices)
         IN  ExcelColumns(column_indices["room"], column_indices["ssid"],
                          column_indices["password"],
                          column_indices["encryption"],
                          column_indices["property"])

\* ws is the worksheet self.sheet, or None
detect_columns(ws) ==
    IF ws = None
    THEN None
    ELSE LET column_indices == scan_header(ws[1], 0, empty_indices)
         IN  IF column_indices["room"] = NoIndex \/ column_indices["ssid"] = NoIndex
             THEN None
             ELSE ExcelColumns(column_indices["room"], column_indices["ssid"],
                               column_indices["password"],
                               column_indices["encryption"],
                               column_indices["property"])

---------------------------------------------------------------------------
(* ExcelManager.set_active_sheet *)

MSG_NO_WORKBOOK == "No hay libro cargado"
MSG_NO_SHEET    == "Hoja no encontrada"
MSG_EMPTY       == "La hoja seleccionada parece estar vacia o solo contiene encabezados"
MSG_NO_COLUMNS  == "No se encuentran las columnas requeridas (habitacion y SSID)"

max_row(ws) == Len(ws)
max_column(ws) == Len(ws[1])

Returned(op, arg, value) == [op |-> op, arg |-> arg, value |-> value]

\* MainWindow.__init__: both switches on, the radios on "WPA2" and "VDPF";
\* QRManager.__init__: the output directory, here without files
GuiInit ==
    /\ options = [use_excel_security |-> TRUE, security_var |-> txt_WPA2,
                  use_excel_property |-> TRUE, property_var |-> txt_VDPF]
    /\ pc = "idle"
    /\ all_rooms = << >>
    /\ loop_idx = 0
    /\ count = 0
    /\ cancel_flag = FALSE
    /\ output_dir = << >>
    /\ calls = << >>
    /\ results = << >>
    /\ messages = << >>

\* The machine the program runs on, as the image steps meet it:
\* logo_exists is os.path.exists(logo_path), logo_pastes is FALSE when
\* opening or pasting the logo raises, fonts are the TrueType fonts
\* ImageFont.truetype finds, text_draws is FALSE when drawing the text
\* raises, preview_shows is FALSE when building the preview raises.
Environment(logo_exists, logo_pastes, fonts, text_draws, preview_shows) ==
    [logo_exists |-> logo_exists, logo_pastes |-> logo_pastes, fonts |-> fonts,
     text_draws |-> text_draws, preview_shows |-> preview_shows]

FontSets == { {"calibrib.ttf", "arial.ttf"}, {"arial.ttf"}, {} }

Environments ==
    { Environment(logo_exists, logo_pastes, fonts, text_draws, preview_shows) :
        logo_exists \in BOOLEAN, logo_pastes \in BOOLEAN, fonts \in FontSets,
        text_draws \in BOOLEAN, preview_shows \in BOOLEAN }

\* every asset and font in place, nothing raises
HealthyEnvironment == Environment(TRUE, TRUE, {"calibrib.ttf", "arial.ttf"}, TRUE, TRUE)

\* ConfigManager.DEFAULT_CONFIG; recent_files is a list of entries
\* {path, last_sheet}, sheet_configs maps a sheet key to its configuration
DEFAULT_CONFIG ==
    [ recent_files |-> << >>, max_recent_files |-> 5, sheet_configs |-> << >> ]

\* The Excel tab as _setup_excel_tab builds it, no file loaded: file_path
\* is the path's segments (<< >> for ''), excel_manager tells whether the
\* window holds an ExcelManager, sheet_values and sheet_var are the sheet
\* combobox, room_search is the state of the room entry and the two generate
\* buttons, shown the text of the last message box, stage the place inside
\* _load_selected_sheet, pending the columns of the configuration it read
WindowAtStart ==
    [ file_path |-> << >>, excel_manager |-> FALSE,
      sheet_values |-> << >>, sheet_var |-> "",
      load_sheet_btn |-> "disabled", room_search |-> "disabled",
      manual_cols_btn |-> "disabled", shown |-> "",
      stage |-> "idle", pending |-> << >> ]

\* the loggers the program names: LogManager's own three and one per module
ModuleNames ==
    { "vgQRGen.core.qr_manager", "vgQRGen.core.excel_manager",
      "vgQRGen.utils.config_manager", "vgQRGen.gui.main_window" }

LoggerNames == {"vgQrGen", "openpyxl", "PIL"} \cup ModuleNames

\* the logging module and LogManager before anything has used them: the
\* root logger at WARNING, every other logger at NOTSET, no handlers
LoggingAtStart ==
    [ initialized |-> FALSE, root_level |-> "WARNING", console_level |-> "none",
      file_level |-> "none", levels |-> [n \in LoggerNames |-> "NOTSET"],
      closed |-> FALSE ]

\* the parts of the program a specification does not follow: the logging
\* as the imports leave it is not read by the managers and handlers
OutsideInit ==
    /\ log_manager = LoggingAtStart
    /\ main_pc = "running"
    /\ config = DEFAULT_CONFIG
    /\ window = WindowAtStart

\* self.workbook[sheet_name]: the worksheet object, known here by its title
Worksheet(sheet_name) == [t |-> "Worksheet", title |-> sheet_name]

\* the rows of the selected worksheet
active_rows == workbook[sheet.title]

\* Faulty variant: set_active_sheet that leaves the former mapping in place
\* when detection fails
set_active_sheet_keeps_columns(sheet_name) ==
    IF workbook = None
    THEN /\ ret' = Returned("set_active_sheet", sheet_name,
                            [ok |-> FALSE, msg |-> MSG_NO_WORKBOOK])
         /\ UNCHANGED <<workbook, sheet, columns, columns_detected>>
    ELSE IF sheet_name \notin DOMAIN workbook
    THEN /\ ret' = Returned("set_active_sheet", sheet_name,
                            [ok |-> FALSE, msg |-> MSG_NO_SHEET])
         /\ UNCHANGED <<workbook, sheet, columns, columns_detected>>
    ELSE IF max_row(workbook[sheet_name]) < 2
    THEN /\ sheet' = Worksheet(sheet_name)
         /\ ret' = Returned("set_active_sheet", sheet_name,
                            [ok |-> FALSE, msg |-> MSG_EMPTY])
         /\ UNCHANGED <<workbook, columns, columns_detected>>
    ELSE LET detected == detect_columns(workbook[sheet_name])
         IN  /\ sheet' = Worksheet(sheet_name)
             /\ IF detected = None
                THEN /\ ret' = Returned("set_active_sheet", sheet_name,
                                        [ok |-> FALSE, msg |-> MSG_NO_COLUMNS])
                     /\ UNCHANGED <<columns, columns_detected>>
                ELSE /\ columns' = detected
                     /\ columns_detected' = TRUE
                     /\ ret' = Returned("set_active_sheet", sheet_name,
                                        [ok |-> TRUE, msg |-> ""])
             /\ UNCHANGED workbook

set_active_sheet(sheet_name) ==
    IF workbook = None
    THEN /\ ret' = Returned("set_active_sheet", sheet_name,
                            [ok |-> FALSE, msg |-> MSG_NO_WORKBOOK])
         /\ UNCHANGED <<workbook, sheet, columns, columns_detected>>
    ELSE IF sheet_name \notin DOMAIN workbook
    THEN /\ ret' = Returned("set_active_sheet", sheet_name,
                            [ok |-> FALSE, msg |-> MSG_NO_SHEET])
         /\ UNCHANGED <<workbook, sheet, columns, columns_detected>>
    ELSE IF max_row(workbook[sheet_name]) < 2
    THEN /\ sheet' = Worksheet(sheet_name)
         /\ ret' = Returned("set_active_sheet", sheet_name,
                            [ok |-> FALSE, msg |-> MSG_EMPTY])
         /\ UNCHANGED <<workbook, columns, columns_detected>>
    ELSE LET detected == detect_columns(workbook[sheet_name])
         IN  /\ sheet' = Worksheet(sheet_name)
             /\ columns' = detected
             /\ IF detected = None
                THEN /\ ret' = Returned("set_active_sheet", sheet_name,
                                        [ok |-> FALSE, msg |-> MSG_NO_COLUMNS])
                     /\ UNCHANGED columns_detected
                ELSE /\ columns_detected' = TRUE
                     /\ ret' = Returned("set_active_sheet", sheet_name,
                                        [ok |-> TRUE, msg |-> ""])
             /\ UNCHANGED workbook

---------------------------------------------------------------------------
(* ExcelManager.set_columns_manually *)

\* column_indices.get(key): the value, or None when the key is missing
dict_get(column_indices, key) ==
    IF key \in DOMAIN column_indices THEN column_indices[key] ELSE NoIndex

\* Faulty variant: set_columns_manually reading the required columns with
\* .get(), so that nothing raises
set_columns_manually_lenient(column_indices) ==
    /\ columns' = ExcelColumns(dict_get(column_indices, "room"),
                               dict_get(column_indices, "ssid"),
                               dict_get(column_indices, "password"),
                               dict_get(column_indices, "encryption"),
                               dict_get(column_indices, "property_type"))
    /\ columns_detected' = TRUE
    /\ ret' = Returned("set_columns_manually", column_indices, TRUE)
    /\ UNCHANGED <<workbook, sheet>>

\* column_indices['room'] / ['ssid'] raise KeyError when the key is missing;
\* the except clause returns False before self.columns is assigned
set_columns_manually(column_indices) ==
    IF "room" \notin DOMAIN column_indices \/ "ssid" \notin DOMAIN column_indices
    THEN /\ ret' = Returned("set_columns_manually", column_indices, FALSE)
         /\ UNCHANGED <<workbook, sheet, columns, columns_detected>>
    ELSE /\ columns' = ExcelColumns(column_indices["room"], column_indices["ssid"],
                                    dict_get(column_indices, "password"),
                                    dict_get(column_indices, "encryption"),
                                    dict_get(column_indices, "property_type"))
         /\ columns_detected' = TRUE
         /\ ret' = Returned("set_columns_manually", column_indices, TRUE)
         /\ UNCHANGED <<workbook, sheet>>

---------------------------------------------------------------------------
(* ExcelManager.get_room_data and get_all_rooms *)

WiFiCredentials(ssid, password, encryption, property_type) ==
    [ t |-> "WiFiCredentials", ssid |-> ssid, password |-> password,
      encryption |-> encryption, property_type |-> property_type ]

\* an exception leaving the method
Raised(exception) == [t |-> "raise", v |-> exception]

\* a Python list
List(items) == [t |-> "list", v |-> items]

\* row[idx] on the tuple of a row raises IndexError past its end
out_of_range(row, idx) == idx >= Len(row)
cell_at(row, idx) == row[idx + 1]

\* Faulty variant: optional_text without the `and row[idx]` test: an empty cell gives its str()
optional_text_unchecked(row, idx) ==
    IF idx # NoIndex
    THEN S(strip(str(cell_at(row, idx))))
    ELSE None

\* str(row[idx]).strip() if idx is not None and row[idx] else None
optional_text(row, idx) ==
    IF idx # NoIndex /\ truthy(cell_at(row, idx))
    THEN S(strip(str(cell_at(row, idx))))
    ELSE None

\* The credentials built from a row (the same statements in get_room_data,
\* lines 292-312, and in get_all_rooms, lines 338-356): an index past the end
\* of the row raises IndexError.
row_credentials(cols, row) ==
    IF \/ cols.encryption # NoIndex /\ out_of_range(row, cols.encryption)
       \/ out_of_range(row, cols.ssid)
       \/ cols.password # NoIndex /\ out_of_range(row, cols.password)
       \/ cols.property_type # NoIndex /\ out_of_range(row, cols.property_type)
    THEN Raised("IndexError")
    ELSE WiFiCredentials(S(strip(str(cell_at(row, cols.ssid)))),
                         optional_text(row, cols.password),
                         optional_text(row, cols.encryption),
                         optional_text(row, cols.property_type))

\* Faulty variant: find_room comparing without .upper() on the cell
RECURSIVE find_room_case_sensitive(_, _, _, _)
find_room_case_sensitive(ws, cols, room_number, r) ==
    IF r > max_row(ws)
    THEN None
    ELSE IF out_of_range(ws[r], cols.room)
    THEN Raised("IndexError")
    ELSE IF strip(str(cell_at(ws[r], cols.room))) = room_number
    THEN row_credentials(cols, ws[r])
    ELSE find_room_case_sensitive(ws, cols, room_number, r + 1)

\* for row in self.sheet.iter_rows(min_row=2, values_only=True), from row r on
RECURSIVE find_room(_, _, _, _)
find_room(ws, cols, room_number, r) ==
    IF r > max_row(ws)
    THEN None
    ELSE IF out_of_range(ws[r], cols.room)
    THEN Raised("IndexError")
    ELSE IF upper(strip(str(cell_at(ws[r], cols.room)))) = room_number
    THEN row_credentials(cols, ws[r])
    ELSE find_room(ws, cols, room_number, r + 1)

get_room_data(room_number) ==
    /\ ret' = Returned("get_room_data", room_number,
                       IF sheet = None \/ columns = None
                       THEN None
                       ELSE find_room(active_rows, columns,
                                      upper(strip(str(room_number))), 2))
    /\ UNCHANGED <<workbook, sheet, columns, columns_detected>>

\* the loop of get_all_rooms from row r on, credentials being the list so far
RECURSIVE collect_rooms(_, _, _, _)
collect_rooms(ws, cols, r, credentials) ==
    IF r > max_row(ws)
    THEN List(credentials)
    ELSE IF out_of_range(ws[r], cols.room)
    THEN Raised("IndexError")
    ELSE IF ~truthy(cell_at(ws[r], cols.room))
    THEN collect_rooms(ws, cols, r + 1, credentials)
    ELSE IF out_of_range(ws[r], cols.ssid)
    THEN Raised("IndexError")
    ELSE IF ~truthy(cell_at(ws[r], cols.ssid))
    THEN collect_rooms(ws, cols, r + 1, credentials)
    ELSE LET cred == row_credentials(cols, ws[r])
         IN  IF cred.t = "raise"
             THEN cred
             ELSE collect_rooms(ws, cols, r + 1, Append(credentials, cred))

get_all_rooms ==
    /\ ret' = Returned("get_all_rooms", None,
                       IF sheet = None \/ columns = None
                       THEN List(<<>>)
                       ELSE collect_rooms(active_rows, columns, 2, <<>>))
    /\ UNCHANGED <<workbook, sheet, columns, columns_detected>>

---------------------------------------------------------------------------
(* Column detection over drawn header rows: a one-sheet workbook whose     *)
(* header row is any row of at most MaxCols cells, followed by one data    *)
(* row.                                                                    *)

HeaderCells ==
    { None, txt_Room, txt_SSID, txt_Number, txt_NetworkName, txt_HotelName,
      txt_WifiPassword, txt_Password, txt_Notes }

Headers == UNION { [1..n -> HeaderCells] : n \in 1..MaxCols }

DetectSheet == "Hoja1"

InitDetect ==
    /\ \E header_row \in Headers :
          workbook = [n \in {DetectSheet} |->
                         << header_row, [i \in 1..Len(header_row) |-> txt_101] >>]
    /\ sheet = None
    /\ columns = None
    /\ columns_detected = FALSE
    /\ ret = Returned("__init__", None, None)
    /\ GuiInit
    /\ OutsideInit
    /\ env = HealthyEnvironment

SelectDetectSheet == set_active_sheet(DetectSheet) /\ UNCHANGED gui_vars /\ UNCHANGED other_vars

NextDetect == SelectDetectSheet

SpecDetect == InitDetect /\ [][NextDetect]_vars

---------------------------------------------------------------------------
(* The manager over a loaded workbook: sheet "Rooms" has the five headers    *)
(* and the drawn data rows, sheet "Lista" has the first two columns of the   *)
(* same rows under headers no keyword matches, sheet "Vacia" is empty.       *)

\* the most data rows of a sheet
MaxRows == 2

\* rows as (room, ssid, password, security, property)
RowPool ==
    { << txt_101,   txt_NetA,  txt_pw,    txt_WPA,   txt_VLE >>,
      << txt_a1,    None,      txt_pw,    txt_blank, None    >>,
      << txt_A1sp,  txt_blank, txt_empty, None,      txt_empty >>,
      << None,      txt_NetB,  None,      txt_empty, txt_VLE >> }

DataRows == UNION { [1..n -> RowPool] : n \in 1..MaxRows }

RoomsHeader == << txt_Room, txt_SSID, txt_Password, txt_Security, txt_Property >>
ListaHeader == << txt_Notes, None >>

FirstTwo(rows) == [i \in 1..Len(rows) |-> << rows[i][1], rows[i][2] >>]

Workbooks ==
    { [n \in {"Rooms", "Lista", "Vacia"} |->
          CASE n = "Rooms" -> << RoomsHeader >> \o rows
            [] n = "Lista" -> << ListaHeader >> \o FirstTwo(rows)
            [] n = "Vacia" -> << << None >> >>]
      : rows \in DataRows }

SheetNameInputs == {"Rooms", "Lista", "Vacia", "Otra"}

\* the dictionaries handed to set_columns_manually
ManualInputs ==
    { << >>,
      [ssid |-> 1],
      [room |-> 0],
      [room |-> 0, ssid |-> 1],
      [room |-> 1, ssid |-> 0],
      [room |-> 0, ssid |-> 1, property |-> 4],
      [room |-> 0, ssid |-> 1, password |-> 2, encryption |-> 3, property_type |-> 4],
      [room |-> 0, ssid |-> 0],
      [room |-> 0, ssid |-> 5] }

\* the room numbers searched for
RoomKeys == { txt_101sp, S(<<"A","1">>), S(<<"r","o","o","m">>), txt_none }

Init ==
    /\ workbook = None
    /\ sheet = None
    /\ columns = None
    /\ columns_detected = FALSE
    /\ ret = Returned("__init__", None, None)
    /\ GuiInit
    /\ OutsideInit
    /\ env = HealthyEnvironment

\* The file is read once: openpyxl.load_workbook gives the workbook, or the
\* validation or the read fails and the manager is left as it was.
load_workbook ==
    /\ workbook = None
    /\ \/ /\ \E wb \in Workbooks : workbook' = wb
          /\ ret' = Returned("load_workbook", None, [ok |-> TRUE, msg |-> ""])
       \/ /\ workbook' = workbook
          /\ ret' = Returned("load_workbook", None,
                             [ok |-> FALSE, msg |-> "Error al cargar el libro"])
    /\ UNCHANGED <<sheet, columns, columns_detected>>
    /\ UNCHANGED gui_vars
    /\ UNCHANGED other_vars

SelectSheet ==
    /\ \E sheet_name \in SheetNameInputs : set_active_sheet(sheet_name)
    /\ UNCHANGED gui_vars
    /\ UNCHANGED other_vars
SetColumns ==
    /\ \E column_indices \in ManualInputs : set_columns_manually(column_indices)
    /\ UNCHANGED gui_vars
    /\ UNCHANGED other_vars
SearchRoom ==
    /\ \E room_number \in RoomKeys : get_room_data(room_number)
    /\ UNCHANGED gui_vars
    /\ UNCHANGED other_vars
AllRooms == get_all_rooms /\ UNCHANGED gui_vars /\ UNCHANGED other_vars

Next ==
    \/ load_workbook
    \/ SelectSheet
    \/ SetColumns
    \/ SearchRoom
    \/ AllRooms

Spec == Init /\ [][Next]_vars

---------------------------------------------------------------------------
(* Claims about column detection (checked under SpecDetect) *)

\* set_active_sheet got as far as calling _detect_columns; columns holds
\* what it returned
DetectionRan ==
    /\ ret.op = "set_active_sheet"
    /\ ret.value.msg \in {"", MSG_NO_COLUMNS}

HeaderRow == active_rows[1]

\* the text a header cell is compared by
HeaderText(cell) == strip(lower(str(cell)))

IsExact(cell, col_type) == truthy(cell) /\ in_keywords(HeaderText(cell), col_type)
IsPartial(cell, col_type) == truthy(cell) /\ any_keyword_in(HeaderText(cell), col_type)

ExactCells(h, col_type) == {i \in 1..Len(h) : IsExact(h[i], col_type)}
PartialCells(h, col_type) == {i \in 1..Len(h) : IsPartial(h[i], col_type)}

Min(set) == CHOOSE x \in set : \A y \in set : x <= y

\* C1: _detect_columns returns a mapping only with both the room and the ssid
\* role assigned to a header cell, and returns None whenever no header cell
\* matches a room keyword or none matches an ssid keyword, exactly or by
\* substring.
C1_RequiredRolesOrNone ==
    DetectionRan =>
        /\ columns # None =>
              /\ columns.room \in 0..(Len(HeaderRow) - 1)
              /\ columns.ssid \in 0..(Len(HeaderRow) - 1)
        /\ (PartialCells(HeaderRow, "room") = {} \/ PartialCells(HeaderRow, "ssid") = {})
              => columns = None

\* a header with a room cell and no ssid cell was scanned and refused
C1_Witness ==
    /\ DetectionRan
    /\ PartialCells(HeaderRow, "room") # {}
    /\ PartialCells(HeaderRow, "ssid") = {}
    /\ columns = None

\* The two-pass reference.  Pass one scans all cells and gives each role the
\* first cell whose text is exactly one of its keywords; pass two scans the
\* cells again and gives a role still unassigned a cell whose text contains
\* one of its keywords.  No pass reassigns a role.
RefExactCell(column_indices, idx, cell) ==
    LET i == first_col_type({ct \in ColTypeSet : IsExact(cell, ct)})
    IN  IF i = 0 \/ column_indices[ColTypes[IF i = 0 THEN 1 ELSE i]] # NoIndex
        THEN column_indices
        ELSE [column_indices EXCEPT ![ColTypes[i]] = idx]

RefPartialCell(column_indices, idx, cell) ==
    LET i == first_col_type({ct \in ColTypeSet :
                                 column_indices[ct] = NoIndex /\ IsPartial(cell, ct)})
    IN  IF i = 0 THEN column_indices
        ELSE [column_indices EXCEPT ![ColTypes[i]] = idx]

RECURSIVE RefPassOne(_, _, _)
RefPassOne(h, idx, column_indices) ==
    IF idx >= Len(h) THEN column_indices
    ELSE RefPassOne(h, idx + 1, RefExactCell(column_indices, idx, h[idx + 1]))

RECURSIVE RefPassTwo(_, _, _)
RefPassTwo(h, idx, column_indices) ==
    IF idx >= Len(h) THEN column_indices
    ELSE RefPassTwo(h, idx + 1, RefPartialCell(column_indices, idx, h[idx + 1]))

TwoPassReference(h) ==
    LET ci == RefPassTwo(h, 0, RefPassOne(h, 0, empty_indices))
    IN  IF ci["room"] = NoIndex \/ ci["ssid"] = NoIndex
        THEN None
        ELSE ExcelColumns(ci["room"], ci["ssid"], ci["password"],
                          ci["encryption"], ci["property"])

\* C2: the mapping _detect_columns computes is the mapping of the two-pass
\* reference algorithm (exact matches over the whole row first, substring
\* matches for the roles left, no role ever reassigned).
C2_EqualsTwoPassReference ==
    DetectionRan => columns = TwoPassReference(HeaderRow)

IsToken(cell, word) == truthy(cell) /\ HeaderText(cell) = word

HasNetworkName(h) == \E i \in 1..Len(h) : h[i] = txt_NetworkName

\* C4 as claimed: with no exact ssid cell in the row, the ssid role of the
\* returned mapping is a "Network Name" cell, wherever it stands and whatever
\* the other cells are.
C4_NetworkNameGetsSsid ==
    (/\ DetectionRan
     /\ columns # None
     /\ ExactCells(HeaderRow, "ssid") = {}
     /\ HasNetworkName(HeaderRow))
    => HeaderRow[columns.ssid + 1] = txt_NetworkName

\* C4 amended: with no exact ssid cell in the row, a "Network Name" cell that no
\* cell containing an ssid keyword precedes is assigned the ssid role by
\* substring containment, wherever it stands and whatever the other cells are.
C4_FirstNetworkNameGetsSsid ==
    (/\ DetectionRan
     /\ columns # None
     /\ ExactCells(HeaderRow, "ssid") = {})
    => \A i \in 1..Len(HeaderRow) :
          (/\ HeaderRow[i] = txt_NetworkName
           /\ \A j \in 1..(i-1) : j \notin PartialCells(HeaderRow, "ssid"))
          => columns.ssid = i - 1

\* "Network Name" is not the first cell, another cell containing an ssid
\* keyword follows it, and it has the ssid role
C4_Witness ==
    /\ DetectionRan
    /\ columns # None
    /\ ExactCells(HeaderRow, "ssid") = {}
    /\ columns.ssid > 0
    /\ HeaderRow[columns.ssid + 1] = txt_NetworkName
    /\ \E j \in PartialCells(HeaderRow, "ssid") : j > columns.ssid + 1

---------------------------------------------------------------------------
(* Claims about the manual mapping and the extraction (checked under Spec) *)

\* C5: set_columns_manually returns False when the dictionary lacks 'room' or
\* 'ssid' and then leaves columns and columns_detected as they were; with both
\* keys it returns True and columns is a new mapping holding the given
\* indices, None for every optional role the dictionary omits.
C5_ManualAllOrNothing ==
    [][ ret'.op = "set_columns_manually" =>
          LET d == ret'.arg
          IN  IF "room" \notin DOMAIN d \/ "ssid" \notin DOMAIN d
              THEN /\ ret'.value = FALSE
                   /\ columns' = columns
                   /\ columns_detected' = columns_detected
              ELSE /\ ret'.value = TRUE
                   /\ columns_detected'
                   /\ columns'.room = d["room"]
                   /\ columns'.ssid = d["ssid"]
                   /\ \A role \in {"password", "encryption", "property_type"} :
                         columns'[role] = IF role \in DOMAIN d THEN d[role] ELSE NoIndex
      ]_vars

\* a dictionary without a required key was refused while a mapping was held
C5_Witness ==
    /\ ret.op = "set_columns_manually"
    /\ ret.value = FALSE
    /\ columns # None
    /\ columns_detected

PresentRoles(cols) ==
    {role \in {"room", "ssid", "password", "encryption", "property_type"} :
        cols[role] # NoIndex}

\* C6: a mapping that auto-detection produced or set_columns_manually accepted
\* has its present indices pairwise distinct and inside the columns of the
\* selected sheet.
C6_MappingDistinctAndInBounds ==
    (/\ sheet # None
     /\ columns # None
     /\ \/ ret.op = "set_active_sheet" /\ ret.value.ok
        \/ ret.op = "set_columns_manually" /\ ret.value = TRUE)
    => /\ \A r1, r2 \in PresentRoles(columns) :
             r1 # r2 => columns[r1] # columns[r2]
       /\ \A r1 \in PresentRoles(columns) :
             columns[r1] \in 0..(max_column(active_rows) - 1)

\* get_room_data ran over a selected sheet with a mapping and raised nothing
RoomSearched ==
    /\ ret.op = "get_room_data"
    /\ sheet # None
    /\ columns # None
    /\ ret.value.t # "raise"

\* the data rows (row 2 onward) whose room cell, trimmed and upper-cased,
\* is the trimmed, upper-cased key
MatchingRows ==
    {r \in 2..Len(active_rows) :
        upper(strip(str(active_rows[r][columns.room + 1])))
            = upper(strip(str(ret.arg)))}

\* C7: get_room_data returns the credentials of the first data row whose room
\* cell equals the key after trimming and case folding, and None when no data
\* row does; later rows and the header row play no part.
C7_FirstMatchingDataRow ==
    RoomSearched =>
        IF MatchingRows = {}
        THEN ret.value = None
        ELSE ret.value = row_credentials(columns, active_rows[Min(MatchingRows)])

\* two data rows match the key, by trimming or case folding, and the
\* credentials returned are those of the first, which differ from the second's
C7_Witness ==
    /\ RoomSearched
    /\ Cardinality(MatchingRows) >= 2
    /\ ret.value.t = "WiFiCredentials"
    /\ ret.value = row_credentials(columns, active_rows[Min(MatchingRows)])
    /\ \E r \in MatchingRows :
          /\ row_credentials(columns, active_rows[r]) # ret.value
          /\ active_rows[r][columns.room + 1] # ret.arg

\* C8: get_room_data returns None when no data row matches the key and when
\* the first matching row has an empty SSID cell.
C8_EmptySsidIsNotFound ==
    RoomSearched =>
        /\ MatchingRows = {} => ret.value = None
        /\ (/\ MatchingRows # {}
            /\ ~truthy(active_rows[Min(MatchingRows)][columns.ssid + 1]))
           => ret.value = None

CredentialsReturned ==
    IF ret.op = "get_room_data" /\ ret.value.t = "WiFiCredentials"
    THEN {ret.value}
    ELSE IF ret.op = "get_all_rooms" /\ ret.value.t = "list"
    THEN {ret.value.v[i] : i \in 1..Len(ret.value.v)}
    ELSE {}

\* C9: every credential get_room_data or get_all_rooms returns has an ssid
\* that is non-empty after trimming.
C9_SsidNonEmpty ==
    \A c \in CredentialsReturned : strip(c.ssid.v) # <<>>

\* credentials c hold nothing that row does not: the ssid is the trimmed text
\* of the ssid cell, and an optional field is present only when its column is
\* mapped and the cell is non-empty, and is then the trimmed cell text
FromRow(c, row) ==
    /\ c.ssid = S(strip(str(row[columns.ssid + 1])))
    /\ \A f \in {"password", "encryption", "property_type"} :
          c[f] # None =>
              /\ columns[f] # NoIndex
              /\ truthy(row[columns[f] + 1])
              /\ c[f] = S(strip(str(row[columns[f] + 1])))

cell_non_empty(row, idx) ==
    /\ ~out_of_range(row, idx)
    /\ cell_at(row, idx) # None
    /\ strip(str(cell_at(row, idx))) # <<>>

\* the data rows of the active sheet, in physical order, whose room cell and
\* ssid cell are both non-empty
QualifyingRows ==
    LET qualifies(row) == /\ cell_non_empty(row, columns.room)
                          /\ cell_non_empty(row, columns.ssid)
    IN  SelectSeq(SubSeq(active_rows, 2, Len(active_rows)), qualifies)

AllRoomsRan ==
    /\ ret.op = "get_all_rooms"
    /\ sheet # None
    /\ columns # None

\* C11: get_all_rooms returns a list (never an error) holding exactly one
\* credential for every data row whose room cell and ssid cell are both
\* non-empty, in physical row order, and none for any other row; the list is
\* empty when no row qualifies, and no record without an ssid is emitted.
C11_OneCredentialPerQualifyingRow ==
    AllRoomsRan =>
        /\ ret.value.t = "list"
        /\ Len(ret.value.v) = Len(QualifyingRows)
        /\ \A i \in 1..Len(ret.value.v) :
              /\ ret.value.v[i] = row_credentials(columns, QualifyingRows[i])
              /\ ret.value.v[i].ssid.v # <<>>

\* set_active_sheet returned a failure with message msg
SelectFailedWith(msg) ==
    /\ ret.op = "set_active_sheet"
    /\ ret.value = [ok |-> FALSE, msg |-> msg]

\* the typed failures of set_active_sheet: no workbook, unknown sheet name,
\* sheet with fewer than 2 rows
C12_SelectFailures ==
    ret.op = "set_active_sheet" =>
        /\ workbook = None => SelectFailedWith(MSG_NO_WORKBOOK)
        /\ (workbook # None /\ ret.arg \notin DOMAIN workbook)
              => SelectFailedWith(MSG_NO_SHEET)
        /\ (/\ workbook # None
            /\ ret.arg \in DOMAIN workbook
            /\ max_row(workbook[ret.arg]) < 2) => SelectFailedWith(MSG_EMPTY)

\* C12: set_active_sheet fails with the empty-sheet failure on a sheet of
\* fewer than 2 rows and fails (raising nothing) without a workbook or on an
\* unknown sheet name, and the sheet the manager holds as selected never has
\* fewer than 2 rows.
C12_NeverActiveOnEmptySheet ==
    /\ C12_SelectFailures
    /\ sheet # None => max_row(active_rows) >= 2

\* a sheet with data rows is selected and there is no mapping
SheetActiveUnresolved ==
    /\ sheet # None
    /\ max_row(active_rows) >= 2
    /\ columns = None

\* this step is set_active_sheet on a sheet with data rows whose header row
\* gives no mapping
DetectionFails ==
    /\ ret'.op = "set_active_sheet"
    /\ workbook # None
    /\ ret'.arg \in DOMAIN workbook
    /\ max_row(workbook[ret'.arg]) >= 2
    /\ detect_columns(workbook[ret'.arg]) = None

\* C13: a set_active_sheet whose detection fails on a sheet with data rows
\* returns the columns-not-found failure with the sheet selected and no
\* mapping; from then on, until another sheet is selected, every step keeps
\* that sheet and no mapping, get_room_data returning None and get_all_rooms
\* an empty list, except a set_columns_manually that returns True, after
\* which the same sheet is selected with the mapping given.
C13_UnresolvedUntilManualMapping ==
    [][ /\ DetectionFails =>
              /\ ret'.value = [ok |-> FALSE, msg |-> MSG_NO_COLUMNS]
              /\ sheet' = Worksheet(ret'.arg)
              /\ columns' = None
        /\ (SheetActiveUnresolved /\ ret'.op # "set_active_sheet") =>
              /\ sheet' = sheet
              /\ ret'.op = "get_room_data" => (ret'.value = None /\ columns' = None)
              /\ ret'.op = "get_all_rooms" => (ret'.value = List(<<>>) /\ columns' = None)
              /\ ret'.op = "set_columns_manually" =>
                    IF ret'.value = TRUE
                    THEN /\ columns' # None
                         /\ columns'.room = ret'.arg["room"]
                         /\ columns'.ssid = ret'.arg["ssid"]
                    ELSE columns' = None
      ]_vars

\* on sheet "Lista", whose header row never gives a mapping, a manual mapping
\* has just been accepted
C13_Witness ==
    /\ sheet = Worksheet("Lista")
    /\ ret.op = "set_columns_manually"
    /\ ret.value = TRUE
    /\ columns # None

---------------------------------------------------------------------------
(* QRManager.generate_wifi_qr: the WIFI: configuration string.  The string *)
(* is kept as the sequence of its fields, "WIFI:T:WPA;S:NetA;P:pw1;;"      *)
(* being << T WPA, S NetA, P pw1 >>; the escaping of the values is left    *)
(* out.  segno.helpers.make_wifi_data writes the T field when security is  *)
(* truthy (upper-cased unless it is 'nopass'), the S field always, and the *)
(* P field when password is truthy, whatever security is.                  *)


Field(key, value) == [k |-> key, v |-> value]

make_wifi_data(ssid, password, security) ==
    (IF truthy(security)
     THEN << Field("T", IF security # txt_nopass THEN upper(security.v) ELSE security.v) >>
     ELSE << >>)
    \o << Field("S", ssid.v) >>
    \o (IF truthy(password) THEN << Field("P", password.v) >> ELSE << >>)

\* the wifi_config string generate_wifi_qr encodes
wifi_config(credentials) ==
    make_wifi_data(credentials.ssid, credentials.password,
                   IF credentials.encryption # txt_nopass
                   THEN credentials.encryption ELSE None)

\* the credentials handed to generate_wifi_qr: ssid is non-empty text, the
\* other fields are absent or text
CredentialInputs ==
    { WiFiCredentials(ssid, password, encryption, property_type) :
        ssid \in {txt_NetA, txt_Guest},
        password \in {None, txt_empty, txt_pw},
        encryption \in {None, txt_empty, txt_WPA2, txt_WEP, txt_nopass, txt_OPEN, txt_wpa},
        property_type \in {None, txt_VLE, txt_XYZ} }

---------------------------------------------------------------------------
(* QRManager: the images.  An image buffer is known by its pixel size, the *)
(* payload its QR code carries and the layers drawn on it, bottom first.   *)

Image(size, payload, layers) ==
    [t |-> "image", size |-> size, payload |-> payload, layers |-> layers]


\* the keys of QRManager.LOGO_PATHS
LOGO_PATHS == {txt_VLEV, txt_VDPF}

\* Faulty variant: _normalize_property_type falling back to 'VDPF' for a tag
\* it does not know
normalize_property_type_defaulting(property_type) ==
    IF ~truthy(property_type)
    THEN None
    ELSE LET tag == S(strip(upper(property_type.v)))
         IN  IF tag \in {txt_VLEV, txt_VLE}
             THEN txt_VLEV
             ELSE txt_VDPF

\* QRManager._normalize_property_type
normalize_property_type(property_type) ==
    IF ~truthy(property_type)
    THEN None
    ELSE LET tag == S(strip(upper(property_type.v)))
         IN  IF tag \in {txt_VLEV, txt_VLE}
             THEN txt_VLEV
             ELSE IF tag \in {txt_VDPF, txt_VG, txt_VDP, txt_FLAMINGOS, txt_Flamingos}
             THEN txt_VDPF
             ELSE None

\* QRManager.add_logo: exists is os.path.exists(logo_path), pastes is FALSE
\* when opening or pasting the logo raises (the except clause returns the
\* buffer it was given)
add_logo(qr_buffer, property_type, exists, pastes) ==
    LET tag == normalize_property_type(property_type)
    IN  IF ~truthy(tag) \/ tag \notin LOGO_PATHS
        THEN qr_buffer
        ELSE IF ~exists
        THEN qr_buffer
        ELSE IF ~pastes
        THEN qr_buffer
        ELSE Image(qr_buffer.size, qr_buffer.payload,
                   Append(qr_buffer.layers, [layer |-> "logo", logo |-> tag]))

\* text_height of add_text
text_height == 150

\* the font of add_text: calibrib.ttf, else arial.ttf, else the built-in one
text_font(fonts) ==
    IF "calibrib.ttf" \in fonts
    THEN "calibrib.ttf"
    ELSE IF "arial.ttf" \in fonts
    THEN "arial.ttf"
    ELSE "default"

\* QRManager.add_text: fonts are the TrueType fonts found, draws is FALSE
\* when drawing raises (the except clause returns the buffer it was given)
add_text(qr_buffer, ssid, password, fonts, draws) ==
    IF ~draws
    THEN qr_buffer
    ELSE Image(<< qr_buffer.size[1], qr_buffer.size[2] + text_height >>,
               qr_buffer.payload,
               Append(qr_buffer.layers,
                      [layer |-> "text", ssid |-> ssid,
                       password |-> IF truthy(password) THEN password ELSE None,
                       font |-> text_font(fonts)]))

\* the canvas of save_qr, Image.new('RGB', (825, 1100), 'white')
CanvasWidth == 825
CanvasHeight == 1100
\* qr_area_height = int(1275 * 0.7)
qr_area_height == 892
\* y_pos of save_qr, the top margin
y_pos == 50

\* str.endswith
endswith(s, suffix) ==
    /\ Len(s) >= Len(suffix)
    /\ SubSeq(s, Len(s) - Len(suffix) + 1, Len(s)) = suffix

dot_png == <<".","p","n","g">>

\* the file name save_qr writes under self.output_dir
output_name(filename) ==
    IF endswith(filename, dot_png) THEN filename ELSE filename \o dot_png

\* int(a * (num / den)) in floating point: the floor of the quotient, and
\* when a * num is a multiple of den the product may round just below the
\* integer and int() then gives one less
int_scaled(a, num, den) ==
    { (a * num) \div den }
    \cup (IF (a * num) % den = 0 /\ num # den
          THEN { ((a * num) \div den) - 1 }
          ELSE { })

\* the sizes save_qr may resize an image of img_width x img_height to
resized_sizes(img_width, img_height) ==
    IF img_width * qr_area_height > CanvasWidth * img_height
    THEN { << CanvasWidth, new_height >> :
              new_height \in int_scaled(img_height, CanvasWidth, img_width) }
    ELSE { << new_width, qr_area_height >> :
              new_width \in int_scaled(img_width, qr_area_height, img_height) }

\* Faulty variant: the resized image pasted at the left edge of the canvas
standardized_img_uncentered(qr_buffer, new_size) ==
    [ t |-> "file", size |-> << CanvasWidth, CanvasHeight >>,
      box |-> [ x |-> 0, y |-> y_pos,
                width |-> new_size[1], height |-> new_size[2] ],
      payload |-> qr_buffer.payload, layers |-> qr_buffer.layers ]

\* the image save_qr writes: the canvas with the resized image pasted at
\* (x_pos, y_pos)
standardized_img(qr_buffer, new_size) ==
    [ t |-> "file", size |-> << CanvasWidth, CanvasHeight >>,
      box |-> [ x |-> (CanvasWidth - new_size[1]) \div 2, y |-> y_pos,
                width |-> new_size[1], height |-> new_size[2] ],
      payload |-> qr_buffer.payload, layers |-> qr_buffer.layers ]

\* the files of a directory after path is written
written_file(dir, path, content) ==
    [ name \in (DOMAIN dir) \cup {path} |->
          IF name = path THEN content ELSE dir[name] ]

\* What save_qr may do with a buffer: write the file, or raise.  Opening the
\* buffer, resizing to an empty size and writing the file may each raise;
\* the except clause raises again.
save_qr_outcomes(qr_buffer, filename) ==
    { [ raised |-> TRUE, path |-> output_name(filename), img |-> None ] }
    \cup { [ raised |-> FALSE, path |-> output_name(filename),
             img |-> standardized_img(qr_buffer, new_size) ] :
           new_size \in resized_sizes(qr_buffer.size[1], qr_buffer.size[2]) }

save_qr(qr_buffer, filename) ==
    \E outcome \in save_qr_outcomes(qr_buffer, filename) :
        /\ output_dir' = IF outcome.raised
                         THEN output_dir
                         ELSE written_file(output_dir, outcome.path, outcome.img)
        /\ ret' = Returned("save_qr", [qr_buffer |-> qr_buffer, filename |-> filename],
                           IF outcome.raised
                           THEN Raised("Exception")
                           ELSE S(outcome.path))

---------------------------------------------------------------------------
(* The methods of QRManager applied to drawn arguments *)

\* the pixel sizes of the buffers handed to add_logo and save_qr: QR codes of
\* scale 30 (870, 1950 wide), with and without the text below, images
\* smaller than the canvas and images far wider than high
Widths == {300, 825, 870, 1950, 2475}
Heights == {3, 892, 1020, 2100}

BufferInputs ==
    { Image(<< w, h >>, << Field("S", txt_NetA.v) >>, << [layer |-> "qr"] >>) :
        w \in Widths, h \in Heights }

\* property tags handed to add_logo
TagInputs ==
    { None, txt_empty, txt_VLE, txt_vle_sp, txt_VLEV, txt_VDPF, txt_VG,
      txt_Flamingos, txt_SinLogo, txt_none, txt_XYZ }

FilenameInputs == { <<"q","r">>, <<"q","r",".","p","n","g">>, <<"W","I","F","I","_","a">> }

InitQRManager ==
    /\ workbook = None
    /\ sheet = None
    /\ columns = None
    /\ columns_detected = FALSE
    /\ ret = Returned("__init__", None, None)
    /\ GuiInit
    /\ OutsideInit
    /\ env = HealthyEnvironment

GeneratePayload ==
    /\ \E credentials \in CredentialInputs :
          ret' = Returned("generate_wifi_qr", credentials, wifi_config(credentials))
    /\ UNCHANGED <<workbook, sheet, columns, columns_detected>>
    /\ UNCHANGED gui_vars
    /\ UNCHANGED other_vars

AddLogo ==
    /\ \E qr_buffer \in BufferInputs, property_type \in TagInputs,
          exists \in BOOLEAN, pastes \in BOOLEAN :
          ret' = Returned("add_logo",
                          [qr_buffer |-> qr_buffer, property_type |-> property_type,
                           exists |-> exists, pastes |-> pastes],
                          add_logo(qr_buffer, property_type, exists, pastes))
    /\ UNCHANGED <<workbook, sheet, columns, columns_detected>>
    /\ UNCHANGED gui_vars
    /\ UNCHANGED other_vars

SaveQR ==
    /\ UNCHANGED other_vars
    /\ \E qr_buffer \in BufferInputs, filename \in FilenameInputs :
          save_qr(qr_buffer, filename)
    /\ UNCHANGED <<workbook, sheet, columns, columns_detected>>
    /\ UNCHANGED <<options, pc, all_rooms, loop_idx, count, cancel_flag,
                   calls, results, messages>>

AddText ==
    /\ \E qr_buffer \in BufferInputs, password \in {None, txt_empty, txt_pw},
          fonts \in FontSets, draws \in BOOLEAN :
          ret' = Returned("add_text",
                          [qr_buffer |-> qr_buffer, ssid |-> txt_NetA,
                           password |-> password, fonts |-> fonts, draws |-> draws],
                          add_text(qr_buffer, txt_NetA, password, fonts, draws))
    /\ UNCHANGED <<workbook, sheet, columns, columns_detected>>
    /\ UNCHANGED gui_vars
    /\ UNCHANGED other_vars

NextQRManager ==
    \/ GeneratePayload
    \/ AddLogo
    \/ AddText

SpecQRManager == InitQRManager /\ [][NextQRManager]_vars

\* save_qr alone, over the files it has written before
NextSaveQR == SaveQR

SpecSaveQR == InitQRManager /\ [][NextSaveQR]_vars

---------------------------------------------------------------------------
(* Claims about QRManager (checked under SpecQRManager) *)

\* the security of the credentials denotes an open network: absent, or the
\* program's 'nopass', or the spec's 'OPEN'
DenotesOpen(credentials) ==
    credentials.encryption \in {None, txt_nopass, txt_OPEN}

HasField(payload, key) == \E i \in 1..Len(payload) : payload[i].k = key

\* C14: the payload generate_wifi_qr builds for credentials whose security
\* denotes an open network has no password field, also when the credentials
\* carry a password.
C14_OpenNetworkHasNoPasswordField ==
    (ret.op = "generate_wifi_qr" /\ DenotesOpen(ret.arg))
        => ~HasField(ret.value, "P")

\* the pasted image of a saved file lies inside the canvas
BoxInsideCanvas(box) ==
    /\ box.x >= 0
    /\ box.y >= 0
    /\ box.width >= 0
    /\ box.height >= 0
    /\ box.x + box.width <= CanvasWidth
    /\ box.y + box.height <= CanvasHeight

\* the margins left and right of the pasted image differ by at most a pixel
BoxCentered(box) ==
    LET left == box.x
        right == CanvasWidth - (box.x + box.width)
    IN  right - left \in {0, 1}

\* C16: every file save_qr has written is an image of exactly 825 x 1100
\* pixels in which the resized input sits 50 pixels below the top edge,
\* horizontally centered and wholly inside the canvas, whatever the size of
\* the input was.
C16_SavedFilesAreStandardized ==
    \A name \in DOMAIN output_dir :
        /\ output_dir[name].size = << 825, 1100 >>
        /\ output_dir[name].box.y = 50
        /\ BoxCentered(output_dir[name].box)
        /\ BoxInsideCanvas(output_dir[name].box)

\* save_qr has just written an input larger than the canvas (1950 x 2100,
\* scaled down to 825 x 888) next to a file whose input was scaled to the
\* height of the QR area
C16_Witness ==
    /\ ret.op = "save_qr"
    /\ ret.arg.qr_buffer.size = << 1950, 2100 >>
    /\ ret.value.t = "str"
    /\ output_dir[ret.value.v].box = [x |-> 0, y |-> 50, width |-> 825, height |-> 888]
    /\ \E name \in DOMAIN output_dir :
          /\ output_dir[name].box.height = 892
          /\ output_dir[name].box.width \in 1..824

\* the tags that stand for a canonical code, compared trimmed and without
\* regard to case
LogoAliases ==
    [ VLEV |-> {<<"V","L","E","V">>, <<"V","L","E">>},
      VDPF |-> {<<"V","D","P","F">>, <<"V","G">>, <<"V","D","P">>,
                <<"F","L","A","M","I","N","G","O","S">>} ]

\* the canonical code of a tag, or "" when the tag is absent, empty, a
\* no-logo tag or not known
CanonicalCode(property_type) ==
    IF property_type = None
    THEN ""
    ELSE LET tag == upper(strip(property_type.v))
         IN  IF tag \in LogoAliases.VLEV THEN "VLEV"
             ELSE IF tag \in LogoAliases.VDPF THEN "VDPF"
             ELSE ""

\* C17: add_logo returns the buffer it was given whenever the tag has no
\* canonical code (unknown, empty or a no-logo tag) or the logo file of its
\* code is missing; the image changes only for a tag with a canonical code
\* whose logo file exists, and then (unless pasting fails) it is the input
\* with that logo on top.
C17_LogoOnlyForKnownTagWithAsset ==
    ret.op = "add_logo" =>
        LET a == ret.arg
            code == CanonicalCode(a.property_type)
        IN  /\ (code = "" \/ ~a.exists) => ret.value = a.qr_buffer
            /\ ret.value # a.qr_buffer => (code # "" /\ a.exists)
            /\ (code # "" /\ a.exists /\ a.pastes) =>
                  /\ ret.value.size = a.qr_buffer.size
                  /\ ret.value.layers =
                        Append(a.qr_buffer.layers,
                               [layer |-> "logo",
                                logo |-> IF code = "VLEV" THEN txt_VLEV ELSE txt_VDPF])

\* add_logo was given ' vle ' with the logo file in place and returned the
\* image with the VLEV logo
C17_Witness ==
    /\ ret.op = "add_logo"
    /\ ret.arg.property_type = txt_vle_sp
    /\ ret.arg.exists
    /\ ret.value # ret.arg.qr_buffer
    /\ ret.value.layers[Len(ret.value.layers)].logo = txt_VLEV

---------------------------------------------------------------------------
(* utils/excel_utils.py: column letters and zero-based column indices *)

\* ord(char) - ord('A'), for the letters A..Z
ord_from_A(char) == (CHOOSE i \in 1..26 : UpperChars[i] = char) - 1

\* chr(ord('A') + remainder)
chr_from_A(remainder) == UpperChars[remainder + 1]

RECURSIVE pow26(_)
pow26(i) == IF i = 0 THEN 1 ELSE 26 * pow26(i - 1)

\* the loop of excel_column_to_index over reversed(column_letter): the sum
\* from position i of the reversed string on
RECURSIVE letters_sum(_, _)
letters_sum(reversed, i) ==
    IF i >= Len(reversed)
    THEN 0
    ELSE (ord_from_A(reversed[i + 1]) + 1) * pow26(i) + letters_sum(reversed, i + 1)

reversed_str(s) == [i \in 1..Len(s) |-> s[Len(s) + 1 - i]]

\* Faulty variant: excel_column_to_index without the final - 1
excel_column_to_index_one_based(column_letter) ==
    letters_sum(reversed_str(strip(upper(column_letter.v))), 0)

excel_column_to_index(column_letter) ==
    letters_sum(reversed_str(strip(upper(column_letter.v))), 0) - 1

\* the while loop of index_to_excel_column
RECURSIVE column_letters(_, _)
column_letters(index, result) ==
    IF index > 0
    THEN column_letters((index - 1) \div 26,
                        << chr_from_A((index - 1) % 26) >> \o result)
    ELSE result

index_to_excel_column(index) == S(column_letters(index + 1, << >>))

\* the largest index converted
MaxIndex == 701

\* the column letters converted: every string of one or two letters A-Z,
\* and some as a user types them
LetterInputs ==
    { S(<< UpperChars[i] >>) : i \in 1..26 }
    \cup { S(<< UpperChars[i], UpperChars[j] >>) : i, j \in 1..26 }
    \cup { S(<<"a","b">>), S(<<" ","z"," ">>), S(<<"A","A","A">>) }

ToIndex ==
    /\ \E column_letter \in LetterInputs :
          ret' = Returned("excel_column_to_index", column_letter,
                          excel_column_to_index(column_letter))
    /\ UNCHANGED <<workbook, sheet, columns, columns_detected>>
    /\ UNCHANGED gui_vars
    /\ UNCHANGED other_vars

ToColumn ==
    /\ \E index \in 0..MaxIndex :
          ret' = Returned("index_to_excel_column", index,
                          index_to_excel_column(index))
    /\ UNCHANGED <<workbook, sheet, columns, columns_detected>>
    /\ UNCHANGED gui_vars
    /\ UNCHANGED other_vars

NextColumns == ToIndex \/ ToColumn

SpecColumns == InitQRManager /\ [][NextColumns]_vars

\* a string of one or two letters A-Z
IsOneOrTwoLetters(s) ==
    /\ Len(s) \in {1, 2}
    /\ \A i \in 1..Len(s) : \E k \in 1..26 : UpperChars[k] = s[i]

\* C18: converting an index in 0..701 to letters and back gives the index,
\* and converting one or two letters A-Z to an index and back gives the
\* letters; A is 0, Z is 25, AA is 26 and AB is 27, in both directions.
C18_ColumnRoundTrip ==
    /\ ret.op = "index_to_excel_column" =>
          /\ excel_column_to_index(ret.value) = ret.arg
          /\ ret.arg = 0 => ret.value = S(<<"A">>)
          /\ ret.arg = 25 => ret.value = S(<<"Z">>)
          /\ ret.arg = 26 => ret.value = S(<<"A","A">>)
          /\ ret.arg = 27 => ret.value = S(<<"A","B">>)
    /\ (ret.op = "excel_column_to_index" /\ IsOneOrTwoLetters(ret.arg.v)) =>
          /\ index_to_excel_column(ret.value) = ret.arg
          /\ ret.arg = S(<<"A">>) => ret.value = 0
          /\ ret.arg = S(<<"Z">>) => ret.value = 25
          /\ ret.arg = S(<<"A","A">>) => ret.value = 26
          /\ ret.arg = S(<<"A","B">>) => ret.value = 27

\* index 701 has been converted to 'ZZ'
C18_Witness ==
    /\ ret.op = "index_to_excel_column"
    /\ ret.arg = 701
    /\ ret.value = S(<<"Z","Z">>)

---------------------------------------------------------------------------
(* MainWindow._generate_and_show_qr.  What the environment decides (the    *)
(* size of the QR code, whether a logo file exists, whether a step raises) *)
(* is drawn; every call is kept in the order it is made.                   *)

\* pixel width of the square image generate_wifi_qr makes (QR version 3 at
\* scale 30 with border 4)
QRSizes == {1110}

\* c.isalnum() or c in '_- '
FilenameChars ==
    {UpperChars[i] : i \in 1..26} \cup {LowerChars[i] : i \in 1..26}
    \cup {"0","1","2","3","4","5","6","7","8","9"} \cup {"_", "-", " "}

sanitized_ssid(ssid) ==
    LET keeps(c) == c \in FilenameChars
    IN  SelectSeq(ssid.v, keeps)

\* the file name _generate_and_show_qr saves under
qr_filename(credentials) ==
    IF credentials.property_type \in {txt_VLEV, txt_VLE}
    THEN <<"V","L","E","_">> \o sanitized_ssid(credentials.ssid) \o dot_png
    ELSE IF credentials.property_type \in {txt_VDPF, txt_Flamingos}
    THEN <<"V","D","P","F","_">> \o sanitized_ssid(credentials.ssid) \o dot_png
    ELSE <<"W","I","F","I","_">> \o sanitized_ssid(credentials.ssid) \o dot_png

\* a call of a QRManager method and its argument
Call(name, arg) == [name |-> name, arg |-> arg]

\* what the handler came to: the value it returns, the QRManager calls it
\* made and the files of the output directory afterwards
Outcome(ok, made, dir) == [ok |-> ok, calls |-> made, dir |-> dir]

\* from showing the preview to save_qr: when showing raises the handler
\* returns False before saving; save_qr may raise or write the file
show_and_save(dir, credentials, qr_buffer, made) ==
    IF ~env.preview_shows
    THEN { Outcome(FALSE, made, dir) }
    ELSE { IF o.raised
           THEN Outcome(FALSE, Append(made, Call("save_qr", qr_filename(credentials))), dir)
           ELSE Outcome(TRUE, Append(made, Call("save_qr", qr_filename(credentials))),
                        written_file(dir, o.path, o.img)) :
           o \in save_qr_outcomes(qr_buffer, qr_filename(credentials)) }

\* add_text, then the preview and save_qr
with_text(dir, credentials, qr_buffer, made) ==
    show_and_save(dir, credentials,
                  add_text(qr_buffer, credentials.ssid, credentials.password,
                           env.fonts, env.text_draws),
                  Append(made, Call("add_text", credentials.ssid)))

\* Faulty variant: the logo pasted on the image that already has the text
with_logo_after_text(dir, credentials, qr_buffer, made) ==
    show_and_save(dir, credentials,
                  IF truthy(credentials.property_type)
                  THEN add_logo(add_text(qr_buffer, credentials.ssid,
                                         credentials.password, env.fonts,
                                         env.text_draws),
                                credentials.property_type, env.logo_exists,
                                env.logo_pastes)
                  ELSE add_text(qr_buffer, credentials.ssid, credentials.password,
                                env.fonts, env.text_draws),
                  IF truthy(credentials.property_type)
                  THEN made \o << Call("add_text", credentials.ssid),
                                   Call("add_logo", credentials.property_type) >>
                  ELSE Append(made, Call("add_text", credentials.ssid)))

\* Faulty variant: an error inside add_logo ending the generation
with_logo_raising(dir, credentials, qr_buffer, made) ==
    IF truthy(credentials.property_type)
    THEN IF truthy(normalize_property_type(credentials.property_type))
            /\ (~env.logo_exists \/ ~env.logo_pastes)
         THEN { Outcome(FALSE, Append(made, Call("add_logo", credentials.property_type)),
                        dir) }
         ELSE with_text(dir, credentials,
                        add_logo(qr_buffer, credentials.property_type,
                                 env.logo_exists, env.logo_pastes),
                        Append(made, Call("add_logo", credentials.property_type)))
    ELSE with_text(dir, credentials, qr_buffer, made)

\* if credentials.property_type: add_logo; then add_text
with_logo(dir, credentials, qr_buffer, made) ==
    IF truthy(credentials.property_type)
    THEN with_text(dir, credentials,
                   add_logo(qr_buffer, credentials.property_type,
                            env.logo_exists, env.logo_pastes),
                   Append(made, Call("add_logo", credentials.property_type)))
    ELSE with_text(dir, credentials, qr_buffer, made)

\* the outcomes of _generate_and_show_qr(credentials) over the files dir:
\* generate_wifi_qr raises, or the steps after it run on its image
generate_and_show_qr(dir, credentials) ==
    { Outcome(FALSE, << Call("generate_wifi_qr", credentials) >>, dir) }
    \cup UNION { with_logo(dir, credentials,
                           Image(<< n, n >>, wifi_config(credentials),
                                 << [layer |-> "qr"] >>),
                           << Call("generate_wifi_qr", credentials) >>) :
                 n \in QRSizes }

---------------------------------------------------------------------------
(* MainWindow: the handlers that generate QR codes *)

MessageBox(kind, text, n) == [kind |-> kind, text |-> text, count |-> n]

\* messagebox.showerror of _generate_and_show_qr's except clause
MSG_QR_ERROR == MessageBox("showerror", "Error generando codigo QR", 0)

\* Faulty variant: the sheet's security and property used whenever the sheet
\* has them, whatever the two switches say
apply_options_ignoring_switches(credentials) ==
    [ credentials EXCEPT
        !.encryption =
            IF ~truthy(credentials.encryption)
            THEN options.security_var
            ELSE @,
        !.property_type =
            IF ~truthy(credentials.property_type)
            THEN IF options.property_var = txt_SinLogo
                 THEN None
                 ELSE options.property_var
            ELSE @ ]

\* "Reemplazar valores segun configuracion" of _generate_room_qr and of the
\* loop of _generate_all_qr
apply_options(credentials) ==
    [ credentials EXCEPT
        !.encryption =
            IF ~options.use_excel_security \/ ~truthy(credentials.encryption)
            THEN options.security_var
            ELSE @,
        !.property_type =
            IF ~options.use_excel_property \/ ~truthy(credentials.property_type)
            THEN IF options.property_var = txt_SinLogo
                 THEN None
                 ELSE options.property_var
            ELSE @ ]

\* what outcome o of _generate_and_show_qr leaves behind; shown are the
\* message boxes the handler has shown before it
generated(o, shown) ==
    /\ output_dir' = o.dir
    /\ calls' = o.calls
    /\ messages' = IF o.ok THEN shown ELSE Append(shown, MSG_QR_ERROR)

\* the call of _generate_and_show_qr inside a handler
generate_and_show(credentials, shown) ==
    \E o \in generate_and_show_qr(output_dir, credentials) : generated(o, shown)

\* the switches and radios of the window
OptionInputs ==
    { [use_excel_security |-> TRUE, security_var |-> txt_WPA2,
       use_excel_property |-> TRUE, property_var |-> txt_VDPF],
      [use_excel_security |-> FALSE, security_var |-> txt_nopass,
       use_excel_property |-> TRUE, property_var |-> txt_SinLogo],
      [use_excel_security |-> TRUE, security_var |-> txt_WEP,
       use_excel_property |-> FALSE, property_var |-> txt_VLE] }

SetOptions ==
    /\ UNCHANGED other_vars
    /\ pc = "idle"
    /\ \E o \in OptionInputs : options' = o
    /\ UNCHANGED excel_vars
    /\ UNCHANGED <<pc, all_rooms, loop_idx, count, cancel_flag, output_dir,
                   calls, results, messages>>

\* _generate_manual_qr with the entries and radios of the manual tab
generate_manual_qr(manual_ssid, manual_password, security, property_type) ==
    /\ UNCHANGED other_vars
    /\ pc = "idle"
    /\ IF strip(manual_ssid.v) = << >>
       THEN /\ messages' = << MessageBox("showerror", "El SSID es obligatorio", 0) >>
            /\ calls' = << >>
            /\ UNCHANGED output_dir
       ELSE generate_and_show(
                WiFiCredentials(S(strip(manual_ssid.v)),
                                IF strip(manual_password.v) = << >>
                                THEN None
                                ELSE S(strip(manual_password.v)),
                                IF security # txt_nopass THEN security ELSE None,
                                IF property_type = txt_SinLogo
                                THEN None
                                ELSE property_type),
                << >>)
    /\ UNCHANGED excel_vars
    /\ UNCHANGED <<options, pc, all_rooms, loop_idx, count, cancel_flag, results>>

\* _generate_room_qr with the entry of the room number
generate_room_qr(room_number) ==
    /\ UNCHANGED other_vars
    /\ pc = "idle"
    /\ IF strip(room_number.v) = << >>
       THEN /\ messages' = << MessageBox("showerror",
                                         "Por favor ingrese un numero de habitacion", 0) >>
            /\ calls' = << >>
            /\ UNCHANGED output_dir
            /\ UNCHANGED excel_vars
       ELSE IF sheet = None
       THEN /\ messages' = << MessageBox("showerror", "No hay hoja de Excel cargada", 0) >>
            /\ calls' = << >>
            /\ UNCHANGED output_dir
            /\ UNCHANGED excel_vars
       ELSE /\ get_room_data(S(strip(room_number.v)))
            /\ IF ret'.value = None
               THEN /\ messages' = << MessageBox("showerror",
                                                 "No se encontro la habitacion", 0) >>
                    /\ calls' = << >>
                    /\ UNCHANGED output_dir
               ELSE IF ret'.value.t = "raise"
               THEN /\ calls' = << >>
                    /\ UNCHANGED <<output_dir, messages>>
               ELSE generate_and_show(apply_options(ret'.value), << >>)
    /\ UNCHANGED <<options, pc, all_rooms, loop_idx, count, cancel_flag, results>>

\* _generate_all_qr up to the loop: the list of get_all_rooms, the dialog
\* "Generar Todo" (confirmed or not) and the progress dialog
start_generate_all_qr(confirmed) ==
    /\ UNCHANGED other_vars
    /\ pc = "idle"
    /\ IF sheet = None
       THEN /\ messages' = << MessageBox("showerror", "No hay hoja de Excel cargada", 0) >>
            /\ UNCHANGED excel_vars
            /\ UNCHANGED <<pc, all_rooms, loop_idx, count, cancel_flag, results>>
       ELSE /\ get_all_rooms
            /\ IF ret'.value.t = "raise"
               THEN UNCHANGED <<pc, all_rooms, loop_idx, count, cancel_flag,
                                results, messages>>
               ELSE IF ret'.value.v = << >>
               THEN /\ messages' = << MessageBox("showerror",
                           "No se encontraron habitaciones en la hoja seleccionada", 0) >>
                    /\ UNCHANGED <<pc, all_rooms, loop_idx, count, cancel_flag, results>>
               ELSE IF ~confirmed
               THEN /\ messages' = << >>
                    /\ UNCHANGED <<pc, all_rooms, loop_idx, count, cancel_flag, results>>
               ELSE /\ pc' = "bulk"
                    /\ all_rooms' = ret'.value.v
                    /\ loop_idx' = 0
                    /\ count' = 0
                    /\ cancel_flag' = FALSE
                    /\ results' = << >>
                    /\ messages' = << >>
    /\ calls' = << >>
    /\ UNCHANGED <<options, output_dir>>

\* Faulty variant: the loop of _generate_all_qr giving up at the first record
\* that fails
generate_all_qr_stops_on_error ==
    /\ UNCHANGED other_vars
    /\ pc = "bulk"
    /\ ~cancel_flag
    /\ loop_idx < Len(all_rooms)
    /\ LET room_data == apply_options(all_rooms[loop_idx + 1])
       IN  /\ all_rooms' = [all_rooms EXCEPT ![loop_idx + 1] = room_data]
           /\ \E o \in generate_and_show_qr(output_dir, room_data) :
                 /\ generated(o, messages)
                 /\ count' = IF o.ok THEN count + 1 ELSE count
                 /\ results' = Append(results, o.ok)
                 /\ loop_idx' = IF o.ok THEN loop_idx + 1 ELSE Len(all_rooms)
    /\ UNCHANGED excel_vars
    /\ UNCHANGED <<options, pc, cancel_flag>>

\* Faulty variant: the loop of _generate_all_qr not looking at cancel_flag
generate_all_qr_ignoring_cancel ==
    /\ UNCHANGED other_vars
    /\ pc = "bulk"
    /\ loop_idx < Len(all_rooms)
    /\ LET room_data == apply_options(all_rooms[loop_idx + 1])
       IN  /\ all_rooms' = [all_rooms EXCEPT ![loop_idx + 1] = room_data]
           /\ \E o \in generate_and_show_qr(output_dir, room_data) :
                 /\ generated(o, messages)
                 /\ count' = IF o.ok THEN count + 1 ELSE count
                 /\ results' = Append(results, o.ok)
                 /\ loop_idx' = loop_idx + 1
    /\ UNCHANGED excel_vars
    /\ UNCHANGED <<options, pc, cancel_flag>>

\* one turn of the loop of _generate_all_qr, up to self.root.update()
generate_all_qr_step ==
    /\ UNCHANGED other_vars
    /\ pc = "bulk"
    /\ ~cancel_flag
    /\ loop_idx < Len(all_rooms)
    /\ LET room_data == apply_options(all_rooms[loop_idx + 1])
       IN  /\ all_rooms' = [all_rooms EXCEPT ![loop_idx + 1] = room_data]
           /\ \E o \in generate_and_show_qr(output_dir, room_data) :
                 /\ generated(o, messages)
                 /\ count' = IF o.ok THEN count + 1 ELSE count
                 /\ results' = Append(results, o.ok)
                 /\ loop_idx' = loop_idx + 1
    /\ UNCHANGED excel_vars
    /\ UNCHANGED <<options, pc, cancel_flag>>

\* on_cancel_progress, run by self.root.update()
on_cancel_progress ==
    /\ UNCHANGED other_vars
    /\ pc = "bulk"
    /\ ~cancel_flag
    /\ cancel_flag' = TRUE
    /\ UNCHANGED excel_vars
    /\ UNCHANGED <<options, pc, all_rooms, loop_idx, count, output_dir, calls,
                   results, messages>>

\* _generate_all_qr after the loop: the message box with the count; the
\* handler returns and its local variables are gone
finish_generate_all_qr ==
    /\ UNCHANGED other_vars
    /\ pc = "bulk"
    /\ cancel_flag \/ loop_idx = Len(all_rooms)
    /\ pc' = "idle"
    /\ all_rooms' = << >>
    /\ loop_idx' = 0
    /\ count' = 0
    /\ cancel_flag' = FALSE
    /\ results' = << >>
    /\ calls' = << >>
    /\ messages' = Append(messages,
                          IF cancel_flag
                          THEN MessageBox("showinfo", "Cancelado", count)
                          ELSE IF count > 0
                          THEN MessageBox("showinfo", "Exito", count)
                          ELSE MessageBox("showerror",
                                          "No se pudo generar ningun codigo QR", 0))
    /\ UNCHANGED excel_vars
    /\ UNCHANGED <<options, output_dir>>

\* rows as (room, ssid, password, security, property); the first two rooms
\* share their SSID
GenerateRowPool ==
    { << txt_101,  txt_NetA,  txt_pw, txt_WPA,    txt_VLE >>,
      << txt_a1,   txt_NetA,  None,   None,       txt_VLE >>,
      << txt_A1sp, txt_Guest, txt_pw, txt_nopass, None    >> }

GenerateWorkbooks ==
    { [n \in {"Rooms"} |-> << RoomsHeader >> \o rows] :
        rows \in UNION { [1..n -> GenerateRowPool] : n \in 1..MaxRows } }

\* the machines the handlers are followed on: one with everything in place,
\* one without the logo assets and the TrueType fonts
GenerateEnvironments ==
    { HealthyEnvironment, Environment(FALSE, TRUE, {}, TRUE, TRUE) }

\* the window after a workbook was loaded and its sheet selected
InitGenerate ==
    /\ workbook \in GenerateWorkbooks
    /\ sheet = Worksheet("Rooms")
    /\ columns = detect_columns(workbook["Rooms"])
    /\ columns_detected = TRUE
    /\ ret = Returned("set_active_sheet", "Rooms", [ok |-> TRUE, msg |-> ""])
    /\ GuiInit
    /\ OutsideInit
    /\ env \in GenerateEnvironments

\* The handlers are followed from an output directory without files: once
\* a file is written the run in progress goes on to its end and no further
\* request is started.
NoFilesYet == output_dir = << >>

ManualGenerate ==
    /\ NoFilesYet
    /\ \E manual_ssid \in {txt_NetA, txt_blank}, manual_password \in {txt_empty, txt_pw},
          security \in {txt_WPA2, txt_nopass}, property_type \in {txt_VLE, txt_SinLogo} :
          generate_manual_qr(manual_ssid, manual_password, security, property_type)

RoomGenerate ==
    /\ NoFilesYet
    /\ \E room_number \in {txt_101sp, txt_XYZ, txt_blank} : generate_room_qr(room_number)

StartGenerateAll ==
    /\ NoFilesYet
    /\ \E confirmed \in BOOLEAN : start_generate_all_qr(confirmed)

NextGenerate ==
    \/ SetOptions
    \/ ManualGenerate
    \/ RoomGenerate
    \/ StartGenerateAll
    \/ generate_all_qr_step
    \/ on_cancel_progress
    \/ finish_generate_all_qr

SpecGenerate == InitGenerate /\ [][NextGenerate]_vars

---------------------------------------------------------------------------
(* Claims about the generation handlers (checked under SpecGenerate) *)

CallNames == [i \in DOMAIN calls |-> calls[i].name]

IsPrefix(s, t) == Len(s) <= Len(t) /\ s = SubSeq(t, 1, Len(s))

\* the steps of a request for credentials, in the order of the pipeline
PipelineSteps(credentials) ==
    << "generate_wifi_qr" >>
    \o (IF credentials.property_type # None /\ credentials.property_type.v # << >>
        THEN << "add_logo" >>
        ELSE << >>)
    \o << "add_text", "save_qr" >>

LayerKinds(img) == [i \in DOMAIN img.layers |-> img.layers[i].layer]

\* C15: the QRManager calls of a request (manual, single room or a record of
\* a bulk run) are an initial part of generate_wifi_qr, add_logo, add_text,
\* save_qr, with add_logo there exactly when the credentials have a property
\* tag; save_qr is called only after add_text, and in every saved file the
\* logo, if any, lies under the text.
C15_PipelineOrder ==
    /\ calls # << >> =>
          /\ calls[1].name = "generate_wifi_qr"
          /\ IsPrefix(CallNames, PipelineSteps(calls[1].arg))
    /\ \A name \in DOMAIN output_dir :
          LayerKinds(output_dir[name]) \in
              { <<"qr", "text">>, <<"qr", "logo", "text">> }

\* inside a bulk run, the record just processed went through the four steps
\* and its file has the logo under the text
C15_Witness ==
    /\ pc = "bulk"
    /\ loop_idx >= 1
    /\ CallNames = <<"generate_wifi_qr", "add_logo", "add_text", "save_qr">>
    /\ calls[4].arg \in DOMAIN output_dir
    /\ LayerKinds(output_dir[calls[4].arg]) = <<"qr", "logo", "text">>

\* the bulk run has gone through all its records, none failed and it was not
\* cancelled
RunCompleteWithoutErrors ==
    /\ pc = "bulk"
    /\ ~cancel_flag
    /\ loop_idx = Len(all_rooms)
    /\ \A i \in 1..Len(results) : results[i]

\* C19: when a bulk run over N credentials has reached its end without
\* cancellation and without errors, the output directory (empty when the run
\* began) holds N files, one per record, and the count reported is the number
\* of files.
C19_OneFilePerRecord ==
    RunCompleteWithoutErrors =>
        /\ Cardinality(DOMAIN output_dir) = Len(all_rooms)
        /\ count = Cardinality(DOMAIN output_dir)

\* a record of a bulk run never stops the run: each turn of the loop moves to
\* the next record; a record that fails is reported with a message box, is
\* not counted and writes no file; a record that is saved is counted
BulkRecordStep ==
    (pc = "bulk" /\ pc' = "bulk" /\ loop_idx' # loop_idx) =>
        /\ loop_idx' = loop_idx + 1
        /\ Len(results') = loop_idx'
        /\ IF results'[loop_idx']
           THEN /\ count' = count + 1
                /\ messages' = messages
                /\ calls'[Len(calls')].name = "save_qr"
                /\ calls'[Len(calls')].arg \in DOMAIN output_dir'
           ELSE /\ count' = count
                /\ messages' = Append(messages, MSG_QR_ERROR)
                /\ output_dir' = output_dir

\* the end of a bulk run reports the number of records saved, and a run that
\* was not cancelled has gone through every record
BulkRunEnd ==
    (pc = "bulk" /\ pc' = "idle") =>
        /\ count = Cardinality({i \in 1..Len(results) : results[i]})
        /\ ~cancel_flag => Len(results) = Len(all_rooms)
        /\ messages'[Len(messages')].count = count

\* C20: in a bulk run a record whose generation or saving fails is reported
\* as failed and is not counted, the loop goes on with the next record up to
\* the last one, and the count reported at the end is the number of records
\* saved.
C20_FailureIsPerRecord == [][BulkRecordStep /\ BulkRunEnd]_vars

\* in a bulk run the first record failed and the second was saved and counted
C20_Witness ==
    /\ pc = "bulk"
    /\ results = << FALSE, TRUE >>
    /\ count = 1
    /\ messages = << MSG_QR_ERROR >>
    /\ Cardinality(DOMAIN output_dir) = 1


---------------------------------------------------------------------------
(* The manual generation on every machine: logo assets and fonts missing   *)
(* or not, drawing and showing raising or not.                             *)

InitPipeline ==
    /\ workbook = None
    /\ sheet = None
    /\ columns = None
    /\ columns_detected = FALSE
    /\ ret = Returned("__init__", None, None)
    /\ GuiInit
    /\ OutsideInit
    /\ env \in Environments

NextPipeline == ManualGenerate

SpecPipeline == InitPipeline /\ [][NextPipeline]_vars

\* _generate_and_show_qr has run and generate_wifi_qr gave it an image
PipelineRan == Len(calls) >= 2

LastCall == calls[Len(calls)]

\* add_logo was called for a tag with a logo and could not paste it
LogoFailed ==
    /\ calls[2].name = "add_logo"
    /\ truthy(normalize_property_type(calls[2].arg))
    /\ ~env.logo_exists \/ ~env.logo_pastes

\* add_logo was called for a tag with a logo and pasted it
LogoPasted ==
    /\ calls[2].name = "add_logo"
    /\ truthy(normalize_property_type(calls[2].arg))
    /\ env.logo_exists /\ env.logo_pastes

TextFailed == ~env.text_draws

\* the font add_text asks for first is not installed
FontMissing == "calibrib.ttf" \notin env.fonts

\* the file the last save_qr wrote
SavedFile == output_dir[LastCall.arg]

FileSaved ==
    /\ PipelineRan
    /\ LastCall.name = "save_qr"
    /\ messages = << >>
    /\ LastCall.arg \in DOMAIN output_dir

HasLayer(img, kind) == \E i \in DOMAIN img.layers : img.layers[i].layer = kind

\* C21 (as claimed): an error inside add_logo or add_text, a missing font
\* included, is not surfaced, the step returns the image it was given and
\* save_qr is reached: the saved file has no logo layer when add_logo failed
\* and no text layer when add_text failed or its font is missing.
C21_FailedStepReturnsImageGiven ==
    /\ PipelineRan =>
          /\ LastCall.name # "add_logo"
          /\ env.preview_shows => LastCall.name = "save_qr"
    /\ FileSaved =>
          /\ LogoFailed => ~HasLayer(SavedFile, "logo")
          /\ (TextFailed \/ FontMissing) => ~HasLayer(SavedFile, "text")

\* C21 (amended): an error inside add_logo or add_text is not surfaced and
\* save_qr is reached whenever the preview shows; a failed add_logo or
\* add_text returns the image it was given, while a missing font makes
\* add_text draw the text with the next font (arial.ttf, then the built-in
\* one).
C21_RenderErrorsDegrade ==
    /\ PipelineRan =>
          /\ LastCall.name # "add_logo"
          /\ env.preview_shows => LastCall.name = "save_qr"
    /\ FileSaved =>
          /\ HasLayer(SavedFile, "logo") <=> LogoPasted
          /\ HasLayer(SavedFile, "text") <=> ~TextFailed
          /\ \A i \in DOMAIN SavedFile.layers :
                SavedFile.layers[i].layer = "text" =>
                    SavedFile.layers[i].font =
                        IF ~FontMissing THEN "calibrib.ttf"
                        ELSE IF "arial.ttf" \in env.fonts THEN "arial.ttf"
                        ELSE "default"

\* a file saved although the logo asset is missing and drawing the text raised
C21_Witness ==
    /\ FileSaved
    /\ LogoFailed
    /\ TextFailed
    /\ LayerKinds(SavedFile) = << "qr" >>


\* a turn of the bulk loop: anything of the run but the cancel flag changes
\* while the run goes on
BulkTurn ==
    /\ pc = "bulk" /\ pc' = "bulk"
    /\ <<loop_idx, count, results, calls, output_dir, all_rooms>>'
          # <<loop_idx, count, results, calls, output_dir, all_rooms>>

\* the cancel button of the progress dialog takes effect
CancelSignalled == pc = "bulk" /\ ~cancel_flag /\ cancel_flag'

\* C22: the bulk loop takes the records one after the other, each turn going
\* through one whole record (its calls up to save_qr when it is saved) with
\* the cancel flag off before and after; the cancel signal arrives only
\* between two turns and leaves the records done so far done and counted;
\* once it is set the only step of the run is its end, which reports that
\* count and has written no further file.
C22_CancelBetweenRecords ==
    [][ /\ BulkTurn =>
              /\ ~cancel_flag /\ ~cancel_flag'
              /\ loop_idx' = loop_idx + 1
              /\ Len(results') = loop_idx'
              /\ calls'[1] = Call("generate_wifi_qr", all_rooms'[loop_idx'])
              /\ results'[loop_idx'] =>
                    /\ calls'[Len(calls')].name = "save_qr"
                    /\ count' = count + 1
        /\ CancelSignalled =>
              /\ Len(results) = loop_idx
              /\ UNCHANGED <<pc, loop_idx, count, results, calls, output_dir>>
        /\ (pc = "bulk" /\ cancel_flag) =>
              /\ pc' = "idle"
              /\ output_dir' = output_dir
              /\ messages'[Len(messages')] = MessageBox("showinfo", "Cancelado", count)
      ]_vars

\* a run cancelled after its first record was saved and counted, with a
\* record still to go
C22_Witness ==
    /\ pc = "bulk"
    /\ cancel_flag
    /\ loop_idx = 1
    /\ Len(all_rooms) = 2
    /\ results = << TRUE >>
    /\ count = 1


---------------------------------------------------------------------------
(* LogManager and the start of the program.  A level is "DEBUG", "INFO",   *)
(* "WARNING" or "NOTSET"; a handler that does not exist yet is "none".     *)

level_for(debug) == IF debug THEN "DEBUG" ELSE "INFO"

\* LogManager.__init__(debug=debug) on the state lm of the class
log_manager_init(lm, debug) ==
    IF lm.initialized
    THEN lm
    ELSE [ lm EXCEPT
             !.initialized = TRUE,
             !.root_level = level_for(debug),
             !.console_level = level_for(debug),
             !.file_level = "DEBUG",
             !.levels = [n \in LoggerNames |->
                            IF n \in {"vgQrGen", "openpyxl", "PIL"}
                            THEN level_for(debug)
                            ELSE lm.levels[n]] ]

\* LogManager.get_logger(name); the name "" stands for no name
log_manager_get_logger(lm, name) ==
    LET ready == IF ~lm.initialized THEN log_manager_init(lm, FALSE) ELSE lm
        logger_name == IF name # "" THEN name ELSE "vgQrGen"
    IN  [ ready EXCEPT
            !.levels[logger_name] =
                IF ready.root_level = "DEBUG" THEN "DEBUG" ELSE "INFO" ]

\* LogManager.close()
log_manager_close(lm) ==
    IF lm.initialized THEN [lm EXCEPT !.closed = TRUE] ELSE lm

\* a module of the package is imported: its module-level
\* logger = LogManager.get_logger(__name__)
ImportModule ==
    /\ main_pc = "import"
    /\ \E name \in ModuleNames :
          /\ log_manager.levels[name] = "NOTSET"
          /\ log_manager' = log_manager_get_logger(log_manager, name)
          /\ ret' = Returned("get_logger", name, log_manager'.levels[name])
    /\ main_pc' = "import"
    /\ UNCHANGED <<workbook, sheet, columns, columns_detected, env, config, window>>
    /\ UNCHANGED gui_vars

\* the imports are over and main() is entered
EnterMain ==
    /\ main_pc = "import"
    /\ main_pc' = "main"
    /\ ret' = Returned("import", None, None)
    /\ UNCHANGED <<workbook, sheet, columns, columns_detected, env, log_manager, config, window>>
    /\ UNCHANGED gui_vars

\* main(): args = parse_args(); logger = LogManager(debug=args.debug).get_logger()
Main ==
    /\ main_pc = "main"
    /\ \E debug \in BOOLEAN :
          /\ log_manager' = log_manager_get_logger(log_manager_init(log_manager, debug), "")
          /\ ret' = Returned("LogManager", [debug |-> debug], log_manager'.levels["vgQrGen"])
    /\ main_pc' = "running"
    /\ UNCHANGED <<workbook, sheet, columns, columns_detected, env, config, window>>
    /\ UNCHANGED gui_vars

\* the application runs: any part of it asks for a logger
RunningGetLogger ==
    /\ main_pc = "running"
    /\ \E name \in LoggerNames \cup {""} :
          /\ log_manager' = log_manager_get_logger(log_manager, name)
          /\ ret' = Returned("get_logger", name,
                             log_manager'.levels[IF name # "" THEN name ELSE "vgQrGen"])
    /\ main_pc' = "running"
    /\ UNCHANGED <<workbook, sheet, columns, columns_detected, env, config, window>>
    /\ UNCHANGED gui_vars

\* main() leaves: LogManager.flush(); LogManager.close()
ExitMain ==
    /\ main_pc = "running"
    /\ log_manager' = log_manager_close(log_manager)
    /\ main_pc' = "exited"
    /\ ret' = Returned("close", None, None)
    /\ UNCHANGED <<workbook, sheet, columns, columns_detected, env, config, window>>
    /\ UNCHANGED gui_vars

InitLogging ==
    /\ workbook = None
    /\ sheet = None
    /\ columns = None
    /\ columns_detected = FALSE
    /\ ret = Returned("start", None, None)
    /\ GuiInit
    /\ env = HealthyEnvironment
    /\ log_manager = LoggingAtStart
    /\ main_pc = "import"
    /\ config = DEFAULT_CONFIG
    /\ window = WindowAtStart

NextLogging ==
    \/ ImportModule
    \/ EnterMain
    \/ Main
    \/ RunningGetLogger
    \/ ExitMain

SpecLogging == InitLogging /\ [][NextLogging]_vars

\* main() has constructed LogManager(debug=True)
StartedWithDebug ==
    /\ main_pc \in {"running", "exited"}
    /\ ret.op = "LogManager"
    /\ ret.arg.debug

\* C23: after main() has constructed LogManager(debug=True), the root logger
\* and the console handler are at DEBUG, whatever get_logger calls the
\* imports made before.
C23_DebugFlagEnablesDebug ==
    StartedWithDebug =>
        /\ log_manager.root_level = "DEBUG"
        /\ log_manager.console_level = "DEBUG"


---------------------------------------------------------------------------
(* Generation from the sheet: the single room and the bulk run *)

NextSheetGenerate ==
    \/ SetOptions
    \/ RoomGenerate
    \/ StartGenerateAll
    \/ generate_all_qr_step
    \/ on_cancel_progress
    \/ finish_generate_all_qr

SpecSheetGenerate == InitGenerate /\ [][NextSheetGenerate]_vars

\* what the sheet supplies in column idx of a row: the trimmed text of the
\* cell, None when the column is not mapped or the cell is empty or blank
SheetText(row, idx) ==
    IF idx = NoIndex
    THEN None
    ELSE IF ~cell_non_empty(row, idx)
    THEN None
    ELSE S(strip(str(cell_at(row, idx))))

ExpectedSecurity(row) ==
    IF options.use_excel_security /\ SheetText(row, columns.encryption) # None
    THEN SheetText(row, columns.encryption)
    ELSE options.security_var

ExpectedProperty(row) ==
    IF options.use_excel_property /\ SheetText(row, columns.property_type) # None
    THEN SheetText(row, columns.property_type)
    ELSE IF options.property_var = txt_SinLogo
    THEN None
    ELSE options.property_var

\* the credentials handed to generate_wifi_qr in the step carry the security
\* and property expected for the row
EncodedAsExpected(row) ==
    /\ calls'[1].name = "generate_wifi_qr"
    /\ calls'[1].arg.encryption = ExpectedSecurity(row)
    /\ calls'[1].arg.property_type = ExpectedProperty(row)

\* the single-room handler has found its room and generated
RoomTurn ==
    /\ pc = "idle" /\ pc' = "idle"
    /\ options' = options
    /\ ret'.op = "get_room_data"
    /\ calls' # << >>

\* the data row get_room_data has matched: the first whose room cell is the key
RoomRow ==
    LET matching == {r \in 2..Len(active_rows) :
                        upper(strip(str(active_rows[r][columns.room + 1])))
                            = upper(strip(str(ret'.arg)))}
    IN  active_rows[CHOOSE r \in matching : \A q \in matching : r <= q]

\* C24: in single-room and in bulk generation the security handed to the
\* encoder is the sheet's (trimmed) value exactly when the security switch is
\* on and the row has a non-empty security, and the radio's default
\* otherwise; the same for the property tag with its switch, where the
\* default 'Sin Logo' gives no tag.
C24_SheetValueOrDefault ==
    [][ /\ RoomTurn => EncodedAsExpected(RoomRow)
        /\ BulkTurn => EncodedAsExpected(QualifyingRows[loop_idx'])
      ]_vars

\* a bulk turn with the security switch off over a row that has a security:
\* the default 'nopass' is encoded; the property switch is on and the row's
\* tag is kept
C24_Witness ==
    /\ pc = "bulk"
    /\ loop_idx >= 1
    /\ ~options.use_excel_security
    /\ options.use_excel_property
    /\ SheetText(QualifyingRows[loop_idx], columns.encryption) = S(<<"W","P","A">>)
    /\ Len(calls) >= 1
    /\ calls[1].arg.encryption = txt_nopass
    /\ calls[1].arg.property_type = txt_VLE


---------------------------------------------------------------------------
\* C28: after any set_active_sheet and set_columns_manually calls,
\* columns_detected is true exactly when a mapping is held, and a
\* set_active_sheet that fails while selecting another sheet leaves no
\* mapping held (the mapping of the sheet selected before is not kept with
\* the new sheet).
C28_MappingBelongsToSelectedSheet ==
    [][ /\ columns_detected' <=> (columns' # None)
        /\ ( /\ ret'.op = "set_active_sheet"
             /\ ~ret'.value.ok
             /\ sheet' # sheet ) => columns' = None
      ]_vars


---------------------------------------------------------------------------
(* ConfigManager: the recent files.  A path is the sequence of its         *)
(* segments; "" is the empty segment of a doubled separator.               *)

\* os.path.normpath over the segments out already kept: "" and "." are
\* dropped, ".." takes back the segment before it
RECURSIVE normpath_from(_, _)
normpath_from(segments, out) ==
    IF segments = << >>
    THEN out
    ELSE LET head == Head(segments)
             rest == Tail(segments)
         IN  IF head \in {"", "."}
             THEN normpath_from(rest, out)
             ELSE IF head = ".." /\ out # << >> /\ out[Len(out)] # ".."
             THEN normpath_from(rest, SubSeq(out, 1, Len(out) - 1))
             ELSE normpath_from(rest, Append(out, head))

normpath(path) == normpath_from(path, << >>)

\* Faulty variant: add_recent_file not removing the entry the file has already
add_recent_file_keeping_old(cfg, file_path, sheet_name) ==
    LET new_entry == [path |-> normpath(file_path), last_sheet |-> sheet_name]
        inserted == << new_entry >> \o cfg.recent_files
    IN  [ cfg EXCEPT !.recent_files =
              SubSeq(inserted, 1,
                     IF Len(inserted) < cfg.max_recent_files
                     THEN Len(inserted)
                     ELSE cfg.max_recent_files) ]

\* ConfigManager.add_recent_file on the configuration cfg
add_recent_file(cfg, file_path, sheet_name) ==
    LET new_entry == [path |-> normpath(file_path), last_sheet |-> sheet_name]
        other(f) == f.path # new_entry.path
        inserted == << new_entry >> \o SelectSeq(cfg.recent_files, other)
    IN  [ cfg EXCEPT !.recent_files =
              SubSeq(inserted, 1,
                     IF Len(inserted) < cfg.max_recent_files
                     THEN Len(inserted)
                     ELSE cfg.max_recent_files) ]

\* ConfigManager.get_last_sheet: the sheet name as a str value, or None
get_last_sheet(cfg, file_path) ==
    LET same(f) == f.path = normpath(file_path)
        found == SelectSeq(cfg.recent_files, same)
    IN  IF found = << >> THEN None ELSE [t |-> "name", v |-> found[1].last_sheet]

\* the paths handed in: six files, three of them also under another spelling
PathInputs ==
    { << "a.xlsx" >>, << ".", "a.xlsx" >>, << "d", "..", "a.xlsx" >>,
      << "b.xlsx" >>, << "c.xlsx" >>, << "d", "e.xlsx" >>, << "d", "", "e.xlsx" >>,
      << "f.xlsx" >>, << "g.xlsx" >>, << "g.xlsx", "." >> }

SheetInputs == {"Rooms", "Lista"}

AddRecentFile ==
    /\ \E file_path \in PathInputs, sheet_name \in SheetInputs :
          /\ config' = add_recent_file(config, file_path, sheet_name)
          /\ ret' = Returned("add_recent_file",
                             [file_path |-> file_path, sheet_name |-> sheet_name], None)
    /\ UNCHANGED <<workbook, sheet, columns, columns_detected, env, log_manager, main_pc,
                   window>>
    /\ UNCHANGED gui_vars

\* the paths looked up: a file under two spellings, and two other files
LookupInputs ==
    { << "a.xlsx" >>, << "d", "..", "a.xlsx" >>, << "d", "", "e.xlsx" >>, << "f.xlsx" >> }

GetLastSheet ==
    /\ \E file_path \in LookupInputs :
          ret' = Returned("get_last_sheet", file_path, get_last_sheet(config, file_path))
    /\ UNCHANGED <<workbook, sheet, columns, columns_detected>>
    /\ UNCHANGED gui_vars
    /\ UNCHANGED other_vars

NextConfig == AddRecentFile \/ GetLastSheet

SpecConfig == InitQRManager /\ [][NextConfig]_vars

\* the entry of the recent files under a path, or None
EntryOf(path) ==
    IF \E i \in DOMAIN config.recent_files : config.recent_files[i].path = path
    THEN [t |-> "name",
          v |-> config.recent_files[CHOOSE i \in DOMAIN config.recent_files :
                                        config.recent_files[i].path = path].last_sheet]
    ELSE None

\* C27: after any add_recent_file calls the recent files are at most
\* max_recent_files, no two of them have the same normalized path, the file
\* added last is first with the sheet of that call, and get_last_sheet gives
\* the sheet kept for the file.
C27_RecentFilesBoundedUniqueLatestFirst ==
    /\ Len(config.recent_files) <= config.max_recent_files
    /\ \A i, j \in DOMAIN config.recent_files :
          i # j => normpath(config.recent_files[i].path)
                      # normpath(config.recent_files[j].path)
    /\ ret.op = "add_recent_file" =>
          config.recent_files[1] = [path |-> normpath(ret.arg.file_path),
                                    last_sheet |-> ret.arg.sheet_name]
    /\ ret.op = "get_last_sheet" => ret.value = EntryOf(normpath(ret.arg))

\* the list is full and a file that is in it under another spelling was
\* added again with another sheet: it is first, once, with the new sheet
C27_Witness ==
    /\ Len(config.recent_files) = config.max_recent_files
    /\ ret.op = "add_recent_file"
    /\ ret.arg.file_path = << "d", "..", "a.xlsx" >>
    /\ config.recent_files[1] = [path |-> << "a.xlsx" >>, last_sheet |-> "Lista"]
    /\ \E i \in DOMAIN config.recent_files : config.recent_files[i].path = << "g.xlsx" >>


---------------------------------------------------------------------------
(* The file name and the logo of one request (checked under SpecTags) *)

\* property cells of the sheet: the canonical codes, aliases, a lower-case
\* spelling, a tag without a logo, no tag
TagCells == { txt_VLEV, txt_VLE, txt_vle_sp, txt_VDPF, txt_VG, txt_Flamingos, txt_XYZ, None }

TagWorkbooks ==
    { [n \in {"Rooms"} |->
          << RoomsHeader, << txt_101, txt_NetA, txt_pw, txt_WPA, tag >> >>] :
        tag \in TagCells }

InitTags ==
    /\ workbook \in TagWorkbooks
    /\ sheet = Worksheet("Rooms")
    /\ columns = detect_columns(workbook["Rooms"])
    /\ columns_detected = TRUE
    /\ ret = Returned("set_active_sheet", "Rooms", [ok |-> TRUE, msg |-> ""])
    /\ GuiInit
    /\ OutsideInit
    /\ env \in GenerateEnvironments

NextTags == SetOptions \/ RoomGenerate

SpecTags == InitTags /\ [][NextTags]_vars

\* the canonical code add_logo decides the logo by, for the credentials the
\* request was generated from
LogoDecision == normalize_property_type(calls[1].arg.property_type)

\* C29: the prefix of the saved file's name agrees with the logo decision
\* for the same credentials: 'VLE_' exactly when the tag normalizes to VLEV,
\* 'VDPF_' exactly when it normalizes to VDPF, 'WIFI_' exactly when it
\* normalizes to no logo.
C29_PrefixAgreesWithLogo ==
    FileSaved =>
        /\ IsPrefix(<<"V","L","E","_">>, LastCall.arg) <=> LogoDecision = txt_VLEV
        /\ IsPrefix(<<"V","D","P","F","_">>, LastCall.arg) <=> LogoDecision = txt_VDPF
        /\ IsPrefix(<<"W","I","F","I","_">>, LastCall.arg) <=> LogoDecision = None


---------------------------------------------------------------------------
(* ConfigManager: the sheet configurations.  A configuration is a dict,    *)
(* modelled as a function of its keys; << >> is the empty dict.            *)

\* ConfigManager._get_sheet_key: f"{normpath(file_path)}::{sheet_name}"
get_sheet_key(file_path, sheet_name) == << normpath(file_path), sheet_name >>

\* ConfigManager.get_sheet_config
get_sheet_config(cfg, file_path, sheet_name) ==
    LET sheet_key == get_sheet_key(file_path, sheet_name)
    IN  IF sheet_key \in DOMAIN cfg.sheet_configs
        THEN cfg.sheet_configs[sheet_key]
        ELSE << >>

\* ConfigManager.save_sheet_config
save_sheet_config(cfg, file_path, sheet_name, config_data) ==
    LET sheet_key == get_sheet_key(file_path, sheet_name)
    IN  [ cfg EXCEPT !.sheet_configs =
              [ k \in DOMAIN @ \cup {sheet_key} |->
                  IF k = sheet_key THEN config_data ELSE @[k] ] ]

---------------------------------------------------------------------------
(* MainWindow: the Excel tab *)

\* columns_config of _save_sheet_config: room and ssid, and the optional
\* roles that are not None
columns_config(cols) ==
    [ k \in {"room", "ssid"}
            \cup {o \in {"password", "encryption", "property_type"} : cols[o] # NoIndex}
        |-> cols[k] ]

\* config_data of _save_sheet_config before the merge
config_data_of(opts, cols, detected) ==
    IF cols = None
    THEN [ use_excel_security |-> opts.use_excel_security,
           use_excel_property |-> opts.use_excel_property,
           security_type |-> opts.security_var,
           property_type |-> opts.property_var,
           columns |-> << >> ]
    ELSE [ use_excel_security |-> opts.use_excel_security,
           use_excel_property |-> opts.use_excel_property,
           security_type |-> opts.security_var,
           property_type |-> opts.property_var,
           columns |-> columns_config(cols),
           columns_detected |-> detected ]

\* the merge of _save_sheet_config: the keys of the existing configuration
\* that config_data does not have are taken over
merged(config_data, existing_config) ==
    [ k \in DOMAIN config_data \cup DOMAIN existing_config |->
        IF k \in DOMAIN config_data THEN config_data[k] ELSE existing_config[k] ]

\* MainWindow._save_sheet_config as a function: the
\* configuration after the call, for the window win, the options opts and
\* the manager's sheet sh, columns cols and columns_detected
save_sheet_config_of(cfg, win, opts, sh, cols, detected) ==
    IF ~win.excel_manager \/ sh = None
    THEN cfg
    ELSE IF win.file_path = << >> \/ win.sheet_var = ""
    THEN cfg
    ELSE save_sheet_config(cfg, win.file_path, win.sheet_var,
                           merged(config_data_of(opts, cols, detected),
                                  get_sheet_config(cfg, win.file_path, win.sheet_var)))

\* MainWindow._enable_room_search
enable_room_search(win) ==
    [ win EXCEPT !.room_search = "normal", !.manual_cols_btn = "normal" ]

\* MainWindow._reset_excel_ui
reset_excel_ui(win) ==
    [ win EXCEPT !.excel_manager = FALSE, !.sheet_values = << >>, !.sheet_var = "",
                 !.load_sheet_btn = "disabled", !.room_search = "disabled",
                 !.manual_cols_btn = "disabled" ]

\* the workbook of the file a.xlsx and the order of its sheets
WindowWorkbook ==
    [n \in {"Rooms", "Lista"} |->
        CASE n = "Rooms" -> << RoomsHeader, << txt_101, txt_NetA, txt_pw, txt_WPA, txt_VLE >> >>
          [] n = "Lista" -> << ListaHeader, << txt_101, txt_NetA >> >>]

WindowSheetNames == << "Rooms", "Lista" >>

\* the files picked in the file dialog or the file combobox: a.xlsx, and
\* b.xlsx, which openpyxl cannot read
FileInputs == { << ".", "a.xlsx" >>, << "b.xlsx" >> }

\* openpyxl.load_workbook(file_path): the workbook, or None when the load fails
file_workbook(file_path) ==
    IF normpath(file_path) = << "a.xlsx" >> THEN WindowWorkbook ELSE None

\* the variables the handlers of the Excel tab leave alone
tab_frame ==
    << pc, all_rooms, loop_idx, count, cancel_flag, output_dir, calls, results,
       messages, env, log_manager, main_pc >>

\* _browse_new_excel / _on_file_selected: _load_excel_file(filename) with a
\* new ExcelManager; the list of recent files shown is not modelled
LoadExcelFile ==
    /\ window.stage = "idle"
    /\ \E filename \in FileInputs :
          LET wb == file_workbook(filename)
              last_sheet == get_last_sheet(config, filename)
              opened == [ window EXCEPT !.file_path = filename ]
          IN  /\ workbook' = wb
              /\ sheet' = None
              /\ columns' = None
              /\ columns_detected' = FALSE
              /\ IF wb = None
                 THEN /\ ret' = Returned("load_workbook", filename,
                                         [ok |-> FALSE, msg |-> "Error al cargar el libro"])
                      /\ window' = [ reset_excel_ui(opened) EXCEPT
                                       !.shown = "Error al cargar el libro" ]
                 ELSE /\ ret' = Returned("load_workbook", filename,
                                         [ok |-> TRUE, msg |-> ""])
                      /\ window' =
                            [ opened EXCEPT
                                !.excel_manager = TRUE,
                                !.sheet_values = WindowSheetNames,
                                !.sheet_var =
                                    IF /\ last_sheet # None
                                       /\ \E i \in DOMAIN WindowSheetNames :
                                             WindowSheetNames[i] = last_sheet.v
                                    THEN last_sheet.v
                                    ELSE WindowSheetNames[1],
                                !.load_sheet_btn = "normal" ]
    /\ UNCHANGED <<options, config>>
    /\ UNCHANGED tab_frame

\* the operator picks a sheet in the sheet combobox
SelectSheetInCombo ==
    /\ window.stage = "idle"
    /\ window.load_sheet_btn = "normal"
    /\ \E i \in DOMAIN window.sheet_values :
          window' = [ window EXCEPT !.sheet_var = window.sheet_values[i] ]
    /\ UNCHANGED excel_vars
    /\ UNCHANGED <<options, config>>
    /\ UNCHANGED tab_frame

\* _load_selected_sheet up to the radios of _load_sheet_config: each of
\* security_var.set and property_var.set runs _save_sheet_config through
\* the variable's trace
LoadSelectedSheet ==
    /\ window.stage = "idle"
    /\ window.load_sheet_btn = "normal"
    /\ IF ~window.excel_manager
       THEN UNCHANGED <<excel_vars, options, config, window>>
       ELSE IF window.sheet_var = ""
       THEN /\ window' = [ window EXCEPT
                             !.shown = "Por favor seleccione una hoja primero" ]
            /\ UNCHANGED <<excel_vars, options, config>>
       ELSE /\ set_active_sheet(window.sheet_var)
            /\ IF ~ret'.value.ok
               THEN /\ window' = [ window EXCEPT !.shown = ret'.value.msg ]
                    /\ UNCHANGED <<options, config>>
               ELSE LET recent == add_recent_file(config, window.file_path,
                                                  window.sheet_var)
                        config_data == get_sheet_config(recent, window.file_path,
                                                        window.sheet_var)
                        switched == [ options EXCEPT
                                        !.use_excel_security =
                                            config_data["use_excel_security"],
                                        !.use_excel_property =
                                            config_data["use_excel_property"],
                                        !.security_var = config_data["security_type"] ]
                        picked == [ switched EXCEPT
                                      !.property_var = config_data["property_type"] ]
                    IN  IF config_data = << >>
                        THEN /\ config' = recent
                             /\ window' = enable_room_search(window)
                             /\ UNCHANGED options
                        ELSE /\ options' = picked
                             /\ config' =
                                   save_sheet_config_of(
                                       save_sheet_config_of(recent, window, switched,
                                                            sheet', columns',
                                                            columns_detected'),
                                       window, picked, sheet', columns',
                                       columns_detected')
                             /\ window' = [ window EXCEPT
                                              !.stage = "load_sheet_config",
                                              !.pending = config_data["columns"] ]
    /\ UNCHANGED tab_frame

\* the end of _load_sheet_config and of _load_selected_sheet: the columns of
\* the configuration read are applied when the manager has detected none,
\* then the room search is enabled
LoadSheetConfigColumns ==
    /\ window.stage = "load_sheet_config"
    /\ IF /\ window.pending # << >>
          /\ ~columns_detected
          /\ "room" \in DOMAIN window.pending
          /\ "ssid" \in DOMAIN window.pending
       THEN set_columns_manually(window.pending)
       ELSE UNCHANGED excel_vars
    /\ window' = [ enable_room_search(window) EXCEPT
                     !.stage = "idle", !.pending = << >> ]
    /\ UNCHANGED <<options, config>>
    /\ UNCHANGED tab_frame

\* column_indices of ColumnSelectionDialog: None when cancelled, else room
\* and ssid and the optional roles filled in
DialogInputs ==
    { << >>, [room |-> 1, ssid |-> 0, password |-> 0] }

\* _show_column_dialog, behind the manual columns button
ShowColumnDialog ==
    /\ window.stage = "idle"
    /\ window.manual_cols_btn = "normal"
    /\ \E column_indices \in DialogInputs :
          IF ~window.excel_manager \/ column_indices = << >>
          THEN UNCHANGED <<excel_vars, config, window>>
          ELSE /\ set_columns_manually(column_indices)
               /\ IF ret'.value
                  THEN /\ window' = [ enable_room_search(window) EXCEPT
                                        !.shown = "Columnas configuradas correctamente" ]
                       /\ config' = save_sheet_config_of(config, window, options, sheet',
                                                         columns', columns_detected')
                  ELSE /\ window' = [ window EXCEPT
                                        !.shown = "No se pudieron configurar las columnas" ]
                       /\ UNCHANGED config
    /\ UNCHANGED options
    /\ UNCHANGED tab_frame

\* a security radio is picked: the trace of security_var runs
\* _save_sheet_config
PickSecurity ==
    /\ window.stage = "idle"
    /\ \E security \in {txt_WPA2, txt_WEP} :
          /\ options' = [ options EXCEPT !.security_var = security ]
          /\ config' = save_sheet_config_of(config, window, options', sheet, columns,
                                            columns_detected)
    /\ UNCHANGED excel_vars
    /\ UNCHANGED window
    /\ UNCHANGED tab_frame

InitWindow == Init

NextWindow ==
    \/ LoadExcelFile
    \/ SelectSheetInCombo
    \/ LoadSelectedSheet
    \/ LoadSheetConfigColumns
    \/ ShowColumnDialog
    \/ PickSecurity

SpecWindow == InitWindow /\ [][NextWindow]_vars


---------------------------------------------------------------------------
(* Claims about the Excel tab (checked under SpecWindow) *)

\* the last call on the manager was a set_active_sheet that found no
\* room and SSID columns
ColumnsNotFound ==
    /\ ret.op = "set_active_sheet"
    /\ ~ret.value.ok
    /\ ret.value.msg = MSG_NO_COLUMNS

\* C25: in every state of the window that follows a set_active_sheet failing
\* for want of the required columns, the first sheet load of a session
\* included, the manual columns button is enabled.
C25_ManualColumnsReachableAfterFailure ==
    ColumnsNotFound => window.manual_cols_btn = "normal"

\* the configuration stored for the sheet the manager was last asked for
StoredForAskedSheet == get_sheet_config(config, window.file_path, ret.arg)

\* the stored configuration has a column mapping with room and ssid
HasSavedMapping(config_data) ==
    /\ config_data # << >>
    /\ config_data["columns"] # << >>
    /\ "room" \in DOMAIN config_data["columns"]
    /\ "ssid" \in DOMAIN config_data["columns"]

\* the ExcelColumns set_columns_manually makes of a stored mapping
MappingOf(column_indices) ==
    ExcelColumns(column_indices["room"], column_indices["ssid"],
                 dict_get(column_indices, "password"),
                 dict_get(column_indices, "encryption"),
                 dict_get(column_indices, "property_type"))

\* C26: when a sheet with a saved column mapping (room and ssid) in its
\* stored configuration is loaded and detection does not resolve its
\* columns, the saved mapping is applied: the manager holds it afterwards.
C26_SavedMappingAppliedOnReload ==
    ( /\ ColumnsNotFound
      /\ window.stage = "idle"
      /\ window.shown = MSG_NO_COLUMNS
      /\ HasSavedMapping(StoredForAskedSheet) )
    => columns = MappingOf(StoredForAskedSheet["columns"])

\* the keys of the sheet configurations a step writes
KeysWritten ==
    { k \in DOMAIN config'.sheet_configs :
        k \notin DOMAIN config.sheet_configs
        \/ config'.sheet_configs[k] # config.sheet_configs[k] }

\* C30: every entry _save_sheet_config writes is keyed by the file and the
\* sheet active in the ExcelManager at that moment.
C30_SavedUnderActiveSheet ==
    [][ \A k \in KeysWritten :
            /\ sheet' # None
            /\ k = get_sheet_key(window'.file_path, sheet'.title) ]_vars

====
